---- MODULE Spec2Model ----
(***************************************************************************)
(* A model of the keta-chain ledger (Block, Transaction, Blockchain) and  *)
(* of the node around it (KeetaNode, the mining job of MiningAPI).         *)
(* Eleven specifications share the variables:                              *)
(*   Spec          the ledger on its own, under its local operations;      *)
(*   LedgerSpec    the same with a cap that takes the whole pool;          *)
(*   HardSpec      the same with a difficulty no hash may meet;            *)
(*   GossipSpec    the node among its peers: connections, the BLOCK,       *)
(*                 TRANSACTION and CHAIN_RESPONSE handlers, mining;        *)
(*   BlockSpec     one Block: construction, mineBlock, validation;         *)
(*   MineLoopSpec  mineBlock turn by turn, for its termination;            *)
(*   StoreSpec     the ledger over a store that fails, across restarts;    *)
(*   MiningSpec    the mining jobs of MiningAPI: start, stop, runs;        *)
(*   NodeSpec      the node's sockets: messages as texts, peers that       *)
(*                 leave, the process ending;                              *)
(*   DiscoverySpec the connections a node takes and makes on               *)
(*                 PEER_DISCOVERY;                                         *)
(*   NetSpec       three connected nodes that mine and gossip blocks.      *)
(*                                                                         *)
(* Abstractions, all stated where they are made:                           *)
(*  - SHA-256 is an ideal hash: a digest is the pair of its hex digits     *)
(*    (a deterministic mix of the hashed fields) and the serialisation it  *)
(*    was computed from, so two digests are equal exactly when the hashed  *)
(*    JSON texts are equal.                                                *)
(*  - Amounts are integers counting thousandths (10 is 10000).             *)
(*  - Number.MAX_SAFE_INTEGER is scaled down to MaxNonce.                  *)
(*  - One handler runs at a time (the event loop), and the store writes a  *)
(*    handler awaits are part of its step.                                 *)
(***************************************************************************)
EXTENDS Integers, Sequences, FiniteSets, TLC

\* ------------------------------------------------------------------ bounds
MaxTime == 2          \* Date.now() takes the values 1..MaxTime
MaxChain == 3         \* no block is appended to a chain of MaxChain blocks
MaxPool == 2          \* no transaction is added to a pool of MaxPool entries
MaxNonce == 20        \* stands for Number.MAX_SAFE_INTEGER in mineBlock
HashLen == 2          \* hex digits of a digest (64 in SHA-256)
MaxDifficulty == 3    \* BlockSpec mines at the difficulties 0..MaxDifficulty
Difficulty == 1       \* Blockchain.difficulty (4 in the constructor)
MaxCap == 1           \* maxTransactionsPerBlock (10000 in the constructor)
MaxPeers == 2         \* connections a node accepts over its run
MaxJobs == 2          \* mining jobs started over a run
MaxDials == 2         \* sockets connectToPeer has made that are not yet open

\* --------------------------------------------------------------- constants
miningReward == 10000 \* this.miningReward = 10, in thousandths
AddressLength == 51   \* address.length !== 51

VARIABLES
    now,                      \* the clock read by Date.now()
    chain,                    \* Blockchain.chain
    pendingTransactions,      \* Blockchain.pendingTransactions
    isInitialized,            \* Blockchain.isInitialized
    difficulty,               \* Blockchain.difficulty
    maxTransactionsPerBlock,  \* Blockchain.maxTransactionsPerBlock
    nextId,                   \* the next value uuidv4() returns
    blocksFile,               \* the chain held in data/blocks.json
    pendingFile,              \* the pool held in data/pending.json
    backups,                  \* data/backups: the latest backup of blocks.json
    peers,                    \* KeetaNode.peers: the ids of the map
    connectedPeers,           \* KeetaNode.connectedPeers
    nextPeer,                 \* the next peer id uuidv4() returns
    hashRate,                 \* KeetaNode.hashRate
    miningJobs,               \* MiningAPI.miningJobs, a job's id its place
    alive,                    \* the node process is running
    peerInfo,                 \* KeetaNode.peers: the entry of each id
    dialing,                  \* sockets connectToPeer made, not yet open
    peerChain,                \* NetSpec: the chain of each other node
    wire,                     \* NetSpec: the messages in flight on each link
    relayed,                  \* history: the indices of the blocks each node
                              \* rebroadcast in its run, in order
    last,                     \* history: the operation that ran last
    block,                    \* BlockSpec: the Block under construction
    target,                   \* BlockSpec: the difficulty it is mined at
    pc                        \* BlockSpec: where the Block is in its life

blockVars == <<block, target, pc>>

netVars == <<peers, connectedPeers, nextPeer, hashRate>>

jobVars == <<miningJobs>>

procVars == <<alive>>

storeVars == <<backups>>

dialVars == <<peerInfo, dialing>>

worldVars == <<peerChain, wire, relayed>>

vars == <<now, chain, pendingTransactions, isInitialized, difficulty,
          maxTransactionsPerBlock, nextId, blocksFile, pendingFile, backups,
          peers, connectedPeers, nextPeer, hashRate, miningJobs, alive,
          peerInfo, dialing, peerChain, wire, relayed, last, block, target, pc>>

Min(a, b) == IF a < b THEN a ELSE b

\* The nodes of the network: this one, "A", and the others.
Others == {"B", "C"}
NetNodes == {"A"} \cup Others

\* ------------------------------------------------------------- JS values
Null == "<null>"          \* null (a fromAddress or a signature)
Undefined == -1           \* an undefined nonce: JSON.stringify drops the key

\* ------------------------------------------------------------- addresses
\* Address strings are named; AddressShape gives what validateAddress reads
\* of each: the first character, the length, the payload (characters 1..43)
\* and the checksum (characters 43..51). "KAlice" and "KBob" are well formed,
\* "Kaddr1" is six characters long, "KBadSum" carries a wrong checksum.
Checksum8(payload) == (7 * payload + 3) % 97

AddressShape(a) ==
    CASE a = "KAlice"  -> [startsWithK |-> TRUE, length |-> 51, payload |-> 1, checksum |-> Checksum8(1)]
      [] a = "KBob"    -> [startsWithK |-> TRUE, length |-> 51, payload |-> 2, checksum |-> Checksum8(2)]
      [] a = "Kaddr1"  -> [startsWithK |-> TRUE, length |-> 6,  payload |-> 0, checksum |-> 0]
      [] a = "KBadSum" -> [startsWithK |-> TRUE, length |-> 51, payload |-> 3, checksum |-> Checksum8(3) + 1]
      [] OTHER         -> [startsWithK |-> FALSE, length |-> 0, payload |-> 0, checksum |-> 0]

\* validateAddress without the checksum comparison of line 413
validateAddressNoChecksum(address) ==
    /\ address # Null
    /\ AddressShape(address).startsWithK
    /\ AddressShape(address).length = AddressLength

validateAddress(address) ==
    /\ address # Null
    /\ AddressShape(address).startsWithK
    /\ AddressShape(address).length = AddressLength
    /\ AddressShape(address).checksum = Checksum8(AddressShape(address).payload)

\* ---------------------------------------------------------------- digests
\* The string "0" (the genesis previousHash) and the empty string.
ZeroString == [hex |-> <<0>>, of |-> <<>>]
EmptyString == [hex |-> <<>>, of |-> <<>>]
\* A digest no block of the model hashes to.
Bogus == [hex |-> [i \in 1..HashLen |-> 15], of |-> <<>>]

Pow16(n) == IF n = 0 THEN 1 ELSE IF n = 1 THEN 16 ELSE IF n = 2 THEN 256 ELSE 4096

HexValue(hex) ==
    IF Len(hex) = 0 THEN 0
    ELSE IF Len(hex) = 1 THEN hex[1]
    ELSE hex[1] + 16 * hex[2]

RECURSIVE TxMix(_)
TxMix(txs) ==
    IF txs = <<>> THEN 0
    ELSE 5 * Head(txs).id + Head(txs).amount \div 1000 + 1 + TxMix(Tail(txs))

\* JSON.stringify of a transaction: the own properties, not the prototype.
TxJSON(tx) ==
    <<tx.id, tx.fromAddress, tx.toAddress, tx.amount, tx.timestamp, tx.signature>>

TxsJSON(txs) == [i \in 1..Len(txs) |-> TxJSON(txs[i])]

\* CryptoUtils.createHash({index, timestamp, transactions, previousHash, nonce})
createHash(index, timestamp, transactions, previousHash, nonce) ==
    LET n == 6 * index + 3 * timestamp + TxMix(transactions)
             + 11 * HexValue(previousHash.hex)
             + (IF nonce = Undefined THEN 0 ELSE nonce + 1)
    IN [hex |-> [i \in 1..HashLen |-> (n \div Pow16(i - 1)) % 16],
        of  |-> <<index, timestamp, TxsJSON(transactions), previousHash, nonce>>]

\* hash.substring(0, difficulty) === '0'.repeat(difficulty)
MeetsTarget(hash, d) ==
    /\ d <= Len(hash.hex)
    /\ \A i \in 1..d : hash.hex[i] = 0

\* ------------------------------------------------------------------ Block
calculateHash(blk) ==
    createHash(blk.index, blk.timestamp, blk.transactions,
               blk.previousHash, blk.nonce)

\* new Block(index, transactions, previousHash, timestamp): the hash is
\* computed on line 499, before line 500 sets the nonce.
NewBlock(index, transactions, previousHash, timestamp) ==
    [index |-> index, timestamp |-> timestamp, transactions |-> transactions,
     previousHash |-> previousHash,
     hash |-> createHash(index, timestamp, transactions, previousHash, Undefined),
     nonce |-> 0, proto |-> TRUE]

NoBlock ==
    [index |-> 0, timestamp |-> 0, transactions |-> <<>>, previousHash |-> EmptyString,
     hash |-> EmptyString, nonce |-> 0, proto |-> FALSE]

\* mineBlock comparing one character too few with the target
RECURSIVE mineBlockShortTarget(_, _)
mineBlockShortTarget(blk, d) ==
    IF MeetsTarget(blk.hash, d - 1) THEN [ok |-> TRUE, block |-> blk]
    ELSE LET n == blk.nonce + 1
             b == [blk EXCEPT !.nonce = n,
                              !.hash = calculateHash([blk EXCEPT !.nonce = n])]
         IN IF n > MaxNonce THEN [ok |-> FALSE, block |-> b]
            ELSE mineBlockShortTarget(b, d)

\* Block.mineBlock: [ok |-> it returned, block |-> the block as it left it]
RECURSIVE mineBlock(_, _)
mineBlock(blk, d) ==
    IF MeetsTarget(blk.hash, d) THEN [ok |-> TRUE, block |-> blk]
    ELSE LET n == blk.nonce + 1
             b == [blk EXCEPT !.nonce = n,
                              !.hash = calculateHash([blk EXCEPT !.nonce = n])]
         IN IF n > MaxNonce THEN [ok |-> FALSE, block |-> b]
            ELSE mineBlock(b, d)

\* ------------------------------------------------------------ Transaction
\* Math.round(amount * 100) / 100 on thousandths: halves round up.
Round2(amount) == ((amount + 5) \div 10) * 10

NoTransaction ==
    [id |-> 0, fromAddress |-> Null, toAddress |-> Null, amount |-> 0,
     timestamp |-> 0, signature |-> Null, proto |-> FALSE]

\* new Transaction(fromAddress, toAddress, amount): [ok |-> it returned,
\* error |-> the message it threw, tx |-> the transaction]. The data payload
\* is left out: every transaction of the model carries the default {}.
TransactionConstructor(fromAddress, toAddress, amount, id, timestamp) ==
    IF ~validateAddress(toAddress)
    THEN [ok |-> FALSE, error |-> "Invalid recipient address", tx |-> NoTransaction]
    ELSE IF fromAddress # Null /\ ~validateAddress(fromAddress)
    THEN [ok |-> FALSE, error |-> "Invalid sender address", tx |-> NoTransaction]
    ELSE IF amount <= 0
    THEN [ok |-> FALSE, error |-> "Invalid transaction amount", tx |-> NoTransaction]
    ELSE [ok |-> TRUE, error |-> "",
          tx |-> [id |-> id, fromAddress |-> fromAddress, toAddress |-> toAddress,
                  amount |-> Round2(amount), timestamp |-> timestamp,
                  signature |-> Null, proto |-> TRUE]]

\* tx.isValid(): "true", "false" or "throw". An object parsed from JSON has
\* no isValid method, and calling it raises a TypeError.
isValid(tx) ==
    IF ~tx.proto THEN "throw"
    ELSE IF tx.fromAddress = Null THEN "true"
    ELSE IF tx.signature = Null THEN "throw"
    ELSE "true"

\* block.hasValidTransactions(): "true", "false" or "throw"
RECURSIVE txsValid(_)
txsValid(txs) ==
    IF txs = <<>> THEN "true"
    ELSE IF isValid(Head(txs)) = "throw" THEN "throw"
    ELSE IF isValid(Head(txs)) = "false" THEN "false"
    ELSE txsValid(Tail(txs))

hasValidTransactions(blk) ==
    IF ~blk.proto THEN "throw" ELSE txsValid(blk.transactions)

\* ------------------------------------------------------------- Blockchain
\* JSON.stringify(block): index, timestamp, transactions, previousHash,
\* hash, nonce.
BlockJSON(b) ==
    <<b.index, b.timestamp, TxsJSON(b.transactions), b.previousHash, b.hash, b.nonce>>

\* What JSON.parse(JSON.stringify(x)) gives back: the same fields on plain
\* objects.
PlainTx(tx) == [tx EXCEPT !.proto = FALSE]
PlainTxs(txs) == [i \in 1..Len(txs) |-> PlainTx(txs[i])]
PlainBlock(b) == [b EXCEPT !.proto = FALSE, !.transactions = PlainTxs(@)]
PlainChain(c) == [i \in 1..Len(c) |-> PlainBlock(c[i])]

createGenesisBlock(timestamp) == NewBlock(0, <<>>, ZeroString, timestamp)

getLatestBlock(c) == c[Len(c)]

\* getBalance without the debit of lines 711-713
RECURSIVE balanceOfTxsCreditsOnly(_, _, _)
balanceOfTxsCreditsOnly(txs, address, balance) ==
    IF txs = <<>> THEN balance
    ELSE balanceOfTxsCreditsOnly(Tail(txs), address,
             IF Head(txs).toAddress = address THEN balance + Head(txs).amount
             ELSE balance)

\* Blockchain.getBalance: the two loops of lines 709-719.
RECURSIVE balanceOfTxs(_, _, _)
balanceOfTxs(txs, address, balance) ==
    IF txs = <<>> THEN balance
    ELSE LET trans == Head(txs)
             b1 == IF trans.fromAddress = address THEN balance - trans.amount ELSE balance
             b2 == IF trans.toAddress = address THEN b1 + trans.amount ELSE b1
         IN balanceOfTxs(Tail(txs), address, b2)

RECURSIVE balanceOfBlocks(_, _, _)
balanceOfBlocks(blocks, address, balance) ==
    IF blocks = <<>> THEN balance
    ELSE balanceOfBlocks(Tail(blocks), address,
                         balanceOfTxs(Head(blocks).transactions, address, balance))

getBalance(c, address) == balanceOfBlocks(c, address, 0)

\* addTransaction without the address check of lines 683-685
addTransactionErrorNoAddressCheck(c, transaction) ==
    IF isValid(transaction) = "throw"
    THEN (IF transaction.proto THEN "Transaction is not signed"
          ELSE "transaction.isValid is not a function")
    ELSE IF isValid(transaction) = "false"
    THEN "Cannot add invalid transaction to chain"
    ELSE IF transaction.amount <= 0
    THEN "Transaction amount should be higher than 0"
    ELSE IF getBalance(c, transaction.fromAddress) < transaction.amount
    THEN "Not enough balance"
    ELSE ""

\* addTransaction without the balance check of lines 696-700
addTransactionErrorNoBalanceCheck(c, transaction) ==
    IF transaction.fromAddress = Null \/ transaction.toAddress = Null
    THEN "Transaction must include from and to address"
    ELSE IF isValid(transaction) = "throw"
    THEN (IF transaction.proto THEN "Transaction is not signed"
          ELSE "transaction.isValid is not a function")
    ELSE IF isValid(transaction) = "false"
    THEN "Cannot add invalid transaction to chain"
    ELSE IF transaction.amount <= 0
    THEN "Transaction amount should be higher than 0"
    ELSE ""

\* Blockchain.addTransaction up to the push: "" when the transaction is
\* pushed, else the message of the error thrown.
addTransactionError(c, transaction) ==
    IF transaction.fromAddress = Null \/ transaction.toAddress = Null
    THEN "Transaction must include from and to address"
    ELSE IF isValid(transaction) = "throw"
    THEN (IF transaction.proto THEN "Transaction is not signed"
          ELSE "transaction.isValid is not a function")
    ELSE IF isValid(transaction) = "false"
    THEN "Cannot add invalid transaction to chain"
    ELSE IF transaction.amount <= 0
    THEN "Transaction amount should be higher than 0"
    ELSE IF getBalance(c, transaction.fromAddress) < transaction.amount
    THEN "Not enough balance"
    ELSE ""

\* Blockchain.isChainValid at clock time t: "true", "false" or "throw"
RECURSIVE linksValid(_, _)
linksValid(c, i) ==
    IF i > Len(c) THEN "true"
    ELSE IF c[i - 1].hash # c[i].previousHash THEN "false"
    ELSE IF hasValidTransactions(c[i]) # "true" THEN hasValidTransactions(c[i])
    ELSE IF c[i].hash # calculateHash(c[i]) THEN "false"
    ELSE linksValid(c, i + 1)

isChainValid(c, t) ==
    IF c = <<>> THEN "false"
    ELSE IF BlockJSON(createGenesisBlock(t)) # BlockJSON(c[1]) THEN "false"
    ELSE linksValid(c, 2)

\* replaceChain taking only a chain whose blocks are linked
replaceChainLinked(c, newChain) ==
    IF /\ Len(newChain) > Len(c)
       /\ \A i \in 2..Len(newChain) : newChain[i].previousHash = newChain[i - 1].hash
    THEN newChain ELSE c

\* replaceChain taking every chain of another length
replaceChainOtherLength(c, newChain) ==
    IF Len(newChain) # Len(c) THEN newChain ELSE c

\* replaceChain taking a chain of equal length too
replaceChainNotShorter(c, newChain) ==
    IF Len(newChain) >= Len(c) THEN newChain ELSE c

\* KeetaNode.replaceChain: the chain afterwards
replaceChain(c, newChain) ==
    IF Len(newChain) > Len(c) THEN newChain ELSE c

\* KeetaNode.isValidBlock: every field is truthy (0 and "" are not; the
\* transactions of the model are arrays, which are truthy even when empty)
isValidBlock(blk) ==
    /\ blk.index # 0
    /\ blk.hash # EmptyString
    /\ blk.previousHash # EmptyString
    /\ blk.timestamp # 0

\* handleBlock taking a block of an index the chain already holds
acceptsBlockAgain(c, blockData) ==
    isValidBlock(blockData) /\ blockData.index <= Len(c)

\* The test of handleBlock (line 798)
acceptsBlock(c, blockData) ==
    isValidBlock(blockData) /\ blockData.index = Len(c)

\* --------------------------------------------------------------- the store
\* Blockchain.saveChain / savePendingTransactions: nothing is written before
\* isInitialized is set; afterwards the file holds the JSON text.
saveChain(initialized, file, c) == IF initialized THEN PlainChain(c) ELSE file

\* savePendingTransactions writing the pool without its newest entry
savePendingTransactionsStale(initialized, file, pool) ==
    IF initialized THEN PlainTxs(SubSeq(pool, 1, Len(pool) - 1)) ELSE file

savePendingTransactions(initialized, file, pool) ==
    IF initialized THEN PlainTxs(pool) ELSE file

\* DatabaseManager.createBackup, called by saveBlockchain before it writes:
\* the file as it is goes to data/backups under the time of day. Only the
\* newest backup is ever read (loadFromBackup), so only it is kept here.
createBackup(initialized, kept, file) == IF initialized THEN <<file>> ELSE kept

\* ------------------------------------------------------------------- Init
\* The application builds the ledger and the node, awaits initialize() and
\* only then serves requests (production-app.js lines 43-51), so every
\* operation but the clock is guarded by isInitialized.
\* The state after new Blockchain() and new KeetaNode(blockchain) over an
\* empty data directory. The constructor sets difficulty 4 and
\* maxTransactionsPerBlock 10000; the model scales both down, with the
\* digest, so that the nonce search and the cap are within reach.
InitOf(cap, d) ==
    /\ now = 1
    /\ chain = <<>>
    /\ pendingTransactions = <<>>
    /\ isInitialized = FALSE
    /\ difficulty = d
    /\ maxTransactionsPerBlock = cap
    /\ nextId = 1
    /\ blocksFile = <<>>
    /\ pendingFile = <<>>
    /\ backups = <<>>
    /\ peers = {}
    /\ connectedPeers = <<>>
    /\ nextPeer = 1
    /\ hashRate = 0
    /\ miningJobs = <<>>
    /\ alive = TRUE
    /\ peerInfo = <<>>
    /\ dialing = <<>>
    /\ peerChain = <<>>
    /\ wire = <<>>
    /\ relayed = [n \in NetNodes |-> <<>>]
    /\ last = [op |-> "new", ok |-> TRUE]
    /\ block = NoBlock
    /\ target = 0
    /\ pc = "none"

InitWith(cap) == InitOf(cap, Difficulty)

Init == InitWith(MaxCap)

\* The clock moves on.
Tick ==
    /\ UNCHANGED <<blockVars, dialVars, worldVars, netVars, storeVars, jobVars, procVars>>
    /\ now < MaxTime
    /\ now' = now + 1
    /\ last' = [op |-> "tick", ok |-> TRUE]
    /\ UNCHANGED <<chain, pendingTransactions, isInitialized, difficulty,
                   maxTransactionsPerBlock, nextId, blocksFile, pendingFile>>

\* What the store does during one call of initialize(): whether
\* database.initialize() returns or throws (mkdir, writeFile), and what the
\* reads of blocks.json, of the newest backup and of pending.json meet:
\* "ok", a missing file or an I/O error ("ENOENT"), text JSON.parse rejects
\* ("SyntaxError"), or a chain that does not match its digest ("integrity").
StoreWorks == [initialize |-> TRUE, blocks |-> "ok", backup |-> "ok", pending |-> "ok"]

StoreBehaviours ==
    [initialize : BOOLEAN, blocks : {"ok", "ENOENT", "SyntaxError", "integrity"},
     backup : {"ok", "ENOENT", "SyntaxError", "integrity"},
     pending : {"ok", "ENOENT", "SyntaxError"}]

\* DatabaseManager.loadFromBackup: [found |-> a value other than null came
\* back, chain |-> that value]. A backup of the first blocks.json, whose text
\* is [], gives the empty array, which is not null. The digest the backup
\* carries is not looked at (line 188): a chain that does not match it comes
\* back like one that does.
loadFromBackup(read, kept) ==
    IF read \in {"ok", "integrity"} /\ kept # <<>>
    THEN [found |-> TRUE, chain |-> kept[1]]
    ELSE [found |-> FALSE, chain |-> <<>>]

\* loadBlockchain that gives up when blocks.json cannot be used
loadBlockchainWithoutBackup(read, backupRead, file, kept) ==
    IF read = "ok" THEN file ELSE <<>>

\* DatabaseManager.loadBlockchain: the chain of blocks.json; when that read
\* raises, the chain of the newest backup, taken as it is; else the empty
\* array.
loadBlockchain(read, backupRead, file, kept) ==
    IF read = "ok" THEN file
    ELSE IF loadFromBackup(backupRead, kept).found
    THEN loadFromBackup(backupRead, kept).chain
    ELSE <<>>

\* DatabaseManager.loadPendingTransactions: every failure gives []
loadPendingTransactions(read, file) == IF read = "ok" THEN file ELSE <<>>

\* Blockchain.initialize() over a store that behaves as `store` says: the
\* stored chain when there is one, else a new genesis block; saveChain() on
\* line 637 runs before isInitialized is set and so writes nothing. When
\* database.initialize() throws, the catch of line 644 builds the genesis
\* block and leaves the pool as the constructor made it.
InitializeOver(store) ==
    /\ UNCHANGED <<blockVars, dialVars, worldVars, netVars, storeVars, jobVars, procVars>>
    /\ ~isInitialized
    /\ LET savedChain == loadBlockchain(store.blocks, store.backup, blocksFile, backups)
       IN chain' = IF store.initialize /\ Len(savedChain) > 0 THEN savedChain
                   ELSE <<createGenesisBlock(now)>>
    /\ pendingTransactions' =
           IF store.initialize THEN loadPendingTransactions(store.pending, pendingFile)
           ELSE pendingTransactions
    /\ isInitialized' = TRUE
    /\ last' = [op |-> "initialize", ok |-> TRUE, store |-> store,
                blocksFile0 |-> blocksFile, backups0 |-> backups]
    /\ UNCHANGED <<now, difficulty, maxTransactionsPerBlock, nextId,
                   blocksFile, pendingFile>>

\* Blockchain.initialize() over a store that works
Initialize == InitializeOver(StoreWorks)

\* A caller builds a transaction (new Transaction, then a signature or
\* none) and hands it to Blockchain.addTransaction. uuidv4() is a counter
\* that moves on only when the transaction it named is kept. writeOk tells
\* whether database.savePendingTransactions returns or throws; a write that
\* throws leaves pending.json as it was, and savePendingTransactions (lines
\* 664-672) catches what it throws.
AddTransactionOver(fromAddress, toAddress, amount, signature, writeOk) ==
    /\ UNCHANGED <<blockVars, dialVars, worldVars, netVars, storeVars, jobVars, procVars>>
    /\ isInitialized
    /\ Len(pendingTransactions) < MaxPool
    /\ LET made == TransactionConstructor(fromAddress, toAddress, amount, nextId, now)
           tx == [made.tx EXCEPT !.signature = signature]
           error == addTransactionError(chain, tx)
       IN IF ~made.ok
          THEN /\ last' = [op |-> "newTransaction", ok |-> FALSE, error |-> made.error,
                           fromAddress |-> fromAddress, toAddress |-> toAddress,
                           amount |-> amount,
                           chain0 |-> chain, pool0 |-> pendingTransactions]
               /\ UNCHANGED <<pendingTransactions, nextId, pendingFile>>
          ELSE IF error # ""
          THEN /\ last' = [op |-> "addTransaction", ok |-> FALSE, error |-> error,
                           tx |-> tx, input |-> amount,
                           chain0 |-> chain, pool0 |-> pendingTransactions]
               /\ UNCHANGED <<pendingTransactions, nextId, pendingFile>>
          ELSE /\ pendingTransactions' = Append(pendingTransactions, tx)
               /\ pendingFile' =
                      IF writeOk
                      THEN savePendingTransactions(isInitialized, pendingFile,
                                                   pendingTransactions')
                      ELSE pendingFile
               /\ nextId' = nextId + 1
               /\ last' = [op |-> "addTransaction", ok |-> TRUE, error |-> "",
                           tx |-> tx, input |-> amount,
                           chain0 |-> chain, pool0 |-> pendingTransactions,
                           writeOk |-> writeOk, pendingFile0 |-> pendingFile]
    /\ UNCHANGED <<now, chain, isInitialized, difficulty, maxTransactionsPerBlock,
                   blocksFile>>

\* Blockchain.addTransaction over a store that works
AddTransaction(fromAddress, toAddress, amount, signature) ==
    AddTransactionOver(fromAddress, toAddress, amount, signature, TRUE)

\* minePendingTransactions forgetting the reward, and emptying the pool
transactionsToMineWithoutReward(pool, cap, rewardTx) ==
    SubSeq(pool, 1, Min(Len(pool), cap))

remainingTransactionsNone(pool, cap) == <<>>

\* The transactions minePendingTransactions puts in the block (lines
\* 743-744), and the pool it leaves (line 758).
transactionsToMine(pool, cap, rewardTx) ==
    Append(SubSeq(pool, 1, Min(Len(pool), cap)), rewardTx)

remainingTransactions(pool, cap) == SubSeq(pool, cap + 1, Len(pool))

\* minePendingTransactions pushing the block before it is mined
pushMinedUnmined(c, mined) == Append(c, mined.block)

\* block.mineBlock(this.difficulty), which throws when the search runs out,
\* and after it this.chain.push(block) (lines 752-755)
pushMined(c, mined) == IF mined.ok THEN Append(c, mined.block) ELSE c

\* Blockchain.minePendingTransactions(miningRewardAddress)
MinePendingTransactions(miningRewardAddress) ==
    /\ UNCHANGED <<blockVars, dialVars, worldVars, netVars, jobVars, procVars>>
    /\ isInitialized
    /\ Len(chain) < MaxChain
    /\ LET made == TransactionConstructor(Null, miningRewardAddress, miningReward,
                                          nextId, now)
           txs == transactionsToMine(pendingTransactions, maxTransactionsPerBlock,
                                     made.tx)
           mined == mineBlock(NewBlock(Len(chain), txs, getLatestBlock(chain).hash, now),
                              difficulty)
           before == [op |-> "minePendingTransactions",
                      address |-> miningRewardAddress,
                      chain0 |-> chain, pool0 |-> pendingTransactions]
       IN IF ~made.ok
          THEN /\ last' = before @@ [ok |-> FALSE, error |-> made.error]
               /\ UNCHANGED <<chain, pendingTransactions, nextId, blocksFile, pendingFile,
                               backups>>
          ELSE IF chain = <<>>
          THEN /\ last' = before @@ [ok |-> FALSE, error |-> "no latest block"]
               /\ UNCHANGED <<chain, pendingTransactions, nextId, blocksFile, pendingFile,
                               backups>>
          ELSE IF ~mined.ok
          THEN /\ last' = before @@ [ok |-> FALSE, error |-> "Mining timeout"]
               /\ chain' = pushMined(chain, mined)
               /\ UNCHANGED <<pendingTransactions, nextId, blocksFile, pendingFile,
                               backups>>
          ELSE /\ chain' = pushMined(chain, mined)
               /\ pendingTransactions' =
                      remainingTransactions(pendingTransactions, maxTransactionsPerBlock)
               /\ blocksFile' = saveChain(isInitialized, blocksFile, chain')
               /\ backups' = createBackup(isInitialized, backups, blocksFile)
               /\ pendingFile' = savePendingTransactions(isInitialized, pendingFile,
                                                         pendingTransactions')
               /\ nextId' = nextId + 1
               /\ last' = before @@ [ok |-> TRUE, error |-> ""]
    /\ UNCHANGED <<now, isInitialized, difficulty, maxTransactionsPerBlock>>

\* A read: Blockchain.getBalance(address)
GetBalance(address) ==
    /\ UNCHANGED <<blockVars, dialVars, worldVars, netVars, storeVars, jobVars, procVars>>
    /\ isInitialized
    /\ last' = [op |-> "getBalance", ok |-> TRUE, address |-> address,
                result |-> getBalance(chain, address),
                chain0 |-> chain, pool0 |-> pendingTransactions]
    /\ UNCHANGED <<now, chain, pendingTransactions, isInitialized, difficulty,
                   maxTransactionsPerBlock, nextId, blocksFile, pendingFile>>

\* A read: Blockchain.isChainValid()
IsChainValid ==
    /\ UNCHANGED <<blockVars, dialVars, worldVars, netVars, storeVars, jobVars, procVars>>
    /\ isInitialized
    /\ last' = [op |-> "isChainValid", ok |-> isChainValid(chain, now) # "throw",
                result |-> isChainValid(chain, now)]
    /\ UNCHANGED <<now, chain, pendingTransactions, isInitialized, difficulty,
                   maxTransactionsPerBlock, nextId, blocksFile, pendingFile>>

\* ---------------------------------------------------------------- peers
\* What a peer can send. A peer runs the same code, so its blocks are built
\* and mined as ours are; it is free in what it puts in them.
PeerTransactionLists ==
    {<<>>} \cup (IF pendingTransactions = <<>> THEN {}
                 ELSE {<<PlainTx(pendingTransactions[1])>>})

PeerBlock(index, transactions, previousHash) ==
    PlainBlock(mineBlock(NewBlock(index, transactions, previousHash, now),
                         difficulty).block)

TipHash == IF chain = <<>> THEN ZeroString ELSE getLatestBlock(chain).hash

\* Blocks at our height (linked to our tip or not), one block at height 0
\* and one block without a hash.
PeerBlocks ==
    {PeerBlock(Len(chain), t, p) : t \in PeerTransactionLists, p \in {TipHash, Bogus}}
    \cup {PeerBlock(0, <<>>, TipHash)}
    \cup {[PeerBlock(Len(chain), <<>>, TipHash) EXCEPT !.hash = EmptyString]}

\* A chain a peer built on its own: its genesis block carries the time the
\* peer was started at, and every later block is mined on the one before.
RECURSIVE ForeignChain(_)
ForeignChain(n) ==
    IF n = 1 THEN <<PlainBlock(createGenesisBlock(MaxTime + 1))>>
    ELSE LET c == ForeignChain(n - 1)
         IN Append(c, PeerBlock(n - 1, <<>>, c[n - 1].hash))

\* Chains a peer can answer with: ours, ours without its tip, ours with one
\* more block, and a chain of its own that is one block longer.
PeerChains ==
    {PlainChain(chain)}
    \cup {PlainChain(chain) \o <<PeerBlock(Len(chain), <<>>, p)>> : p \in {TipHash, Bogus}}
    \cup (IF chain = <<>> THEN {} ELSE {PlainChain(SubSeq(chain, 1, Len(chain) - 1))})
    \cup (IF chain = <<>> THEN {} ELSE {ForeignChain(Len(chain) + 1)})

\* A transaction as a peer sends it: parsed from JSON, under the peer's id.
PeerTransaction(fromAddress, signature) ==
    [id |-> 0, fromAddress |-> fromAddress, toAddress |-> "KBob", amount |-> 6000,
     timestamp |-> now, signature |-> signature, proto |-> FALSE]

PeerTransactions == {PeerTransaction(Null, Null), PeerTransaction("KAlice", "sig")}

\* ------------------------------------------------------------ KeetaNode
\* KeetaNode.sendToPeer / broadcastToPeers: the messages sent, in order. A
\* socket is OPEN for as long as its peer is in the map (its close event
\* runs handleDisconnection).
NoPeer == 0                \* excludePeerId = null: no peer id is 0

sendToPeer(map, peerId, message) ==
    IF peerId \in map THEN <<[to |-> peerId, message |-> message]>> ELSE <<>>

\* broadcastToPeers sending to the excluded peer too
RECURSIVE broadcastOverAll(_, _, _, _)
broadcastOverAll(list, map, message, excludePeerId) ==
    IF list = <<>> THEN <<>>
    ELSE sendToPeer(map, Head(list), message)
         \o broadcastOverAll(Tail(list), map, message, excludePeerId)

\* broadcastToPeers sending to each peer twice
RECURSIVE broadcastOverTwice(_, _, _, _)
broadcastOverTwice(list, map, message, excludePeerId) ==
    IF list = <<>> THEN <<>>
    ELSE (IF Head(list) # excludePeerId
          THEN sendToPeer(map, Head(list), message) \o sendToPeer(map, Head(list), message)
          ELSE <<>>)
         \o broadcastOverTwice(Tail(list), map, message, excludePeerId)

RECURSIVE broadcastOver(_, _, _, _)
broadcastOver(list, map, message, excludePeerId) ==
    IF list = <<>> THEN <<>>
    ELSE (IF Head(list) # excludePeerId THEN sendToPeer(map, Head(list), message)
          ELSE <<>>)
         \o broadcastOver(Tail(list), map, message, excludePeerId)

broadcastToPeers(message, excludePeerId) ==
    broadcastOver(connectedPeers, peers, message, excludePeerId)

\* A CHAIN_RESPONSE that tells the height the chain had one block ago
chainResponseStaleHeight(c) ==
    [type |-> "CHAIN_RESPONSE",
     data |-> [chain |-> c, height |-> Len(c) - 1, hash |-> getLatestBlock(c).hash]]

\* The CHAIN_RESPONSE a node sends of its chain c (lines 752-760, 844-851)
chainResponse(c) ==
    [type |-> "CHAIN_RESPONSE",
     data |-> [chain |-> c, height |-> Len(c), hash |-> getLatestBlock(c).hash]]

\* handleConnection announcing itself to the others before it answers the
\* new peer
connectionMessagesDiscoveryFirst(map, list, peerId, c) ==
    broadcastOver(list, map, [type |-> "PEER_DISCOVERY", data |-> "self"], peerId)
    \o sendToPeer(map, peerId,
                  [type |-> "CHAIN_RESPONSE",
                   data |-> [chain |-> c, height |-> Len(c),
                             hash |-> getLatestBlock(c).hash]])

\* What handleConnection sends (lines 752-770), with map and list the peers
\* after the new one was recorded: the chain to the new peer, then
\* PEER_DISCOVERY (the node's own id, address and port: "self") to the rest.
connectionMessages(map, list, peerId, c) ==
    sendToPeer(map, peerId, chainResponse(c))
    \o broadcastOver(list, map, [type |-> "PEER_DISCOVERY", data |-> "self"], peerId)

\* The port this node listens on (the constructor's default), the ports the
\* other nodes listen on, and the node that answers on a port.
OwnPort == 6001
RemotePorts == {6002, 6003}
Listening(port) ==
    CASE port = 6002 -> "B" [] port = 6003 -> "C" [] OTHER -> "self"
RemoteNodes == {Listening(port) : port \in RemotePorts}

\* req.socket.remoteAddress and req.socket.remotePort of a connection the
\* server took: the address the remote node called from and the port its
\* system lent it for that one socket, which is never one a node listens on.
InboundAddress == "::1"
EphemeralPort(peerId) == 50000 + peerId

\* this.peers.set(peerId, peer)
setPeer(entries, peerId, peer) ==
    [id \in DOMAIN entries \cup {peerId} |->
        IF id = peerId THEN peer ELSE entries[id]]

\* this.peers.delete(peerId), on the entries
deletePeer(entries, peerId) ==
    [id \in DOMAIN entries \ {peerId} |-> entries[id]]

\* KeetaNode.handleConnection(ws, req), for a connection the server took or
\* one connectToPeer opened: a fresh peer id, the chain sent to the new
\* peer, then PEER_DISCOVERY to the others. address and port are what req
\* says of the socket; node is the process at its other end, which the code
\* keeps no record of; dials are the sockets still to open.
HandleConnectionOf(address, port, node, dials) ==
    /\ UNCHANGED <<blockVars, worldVars, storeVars, jobVars, procVars>>
    /\ dialing' = dials
    /\ isInitialized
    /\ nextPeer <= MaxPeers
    /\ peers' = peers \cup {nextPeer}
    /\ peerInfo' = setPeer(peerInfo, nextPeer,
                           [address |-> address, port |-> port, node |-> node])
    /\ connectedPeers' = Append(connectedPeers, nextPeer)
    /\ nextPeer' = nextPeer + 1
    /\ last' = [op |-> "handleConnection", ok |-> TRUE, from |-> nextPeer,
                peers0 |-> peers, connected0 |-> connectedPeers, chain0 |-> chain,
                sent |-> connectionMessages(peers', connectedPeers', nextPeer, chain)]
    /\ UNCHANGED <<now, chain, pendingTransactions, isInitialized, difficulty,
                   maxTransactionsPerBlock, nextId, blocksFile, pendingFile, hashRate>>

\* A connection the server took from node B.
HandleConnection ==
    HandleConnectionOf(InboundAddress, EphemeralPort(nextPeer), "B", dialing)

\* handleDisconnection leaving the entry in the map
peersWithoutNobody(map, peerId) == map

\* this.peers.delete(peerId)
peersWithout(map, peerId) == map \ {peerId}

\* handleDisconnection leaving the id in connectedPeers
listWithoutNobody(list, peerId) == list

\* this.connectedPeers.filter(id => id !== peerId)
listWithout(list, peerId) == SelectSeq(list, LAMBDA id : id # peerId)

\* KeetaNode.handleDisconnection(peerId), on the close or error event of a
\* socket handleConnection put its listeners on (lines 743-750): a socket
\* that fails emits both, so the handler can run again for a peer it has
\* removed.
HandleDisconnection(peerId) ==
    /\ UNCHANGED <<blockVars, worldVars, storeVars, jobVars, procVars, dialing>>
    /\ peerId \in 1..(nextPeer - 1)
    /\ peerInfo' = deletePeer(peerInfo, peerId)
    /\ peers' = peersWithout(peers, peerId)
    /\ connectedPeers' = listWithout(connectedPeers, peerId)
    /\ last' = [op |-> "handleDisconnection", ok |-> TRUE, from |-> peerId,
                peers0 |-> peers, connected0 |-> connectedPeers]
    /\ UNCHANGED <<now, chain, pendingTransactions, isInitialized, difficulty,
                   maxTransactionsPerBlock, nextId, blocksFile, pendingFile, nextPeer,
                   hashRate>>

\* KeetaNode.handleBlock(peerId, blockData)
HandleBlock(peerId, blockData) ==
    /\ UNCHANGED <<blockVars, dialVars, worldVars, storeVars, jobVars, procVars>>
    /\ isInitialized
    /\ peerId \in peers
    /\ Len(chain) < MaxChain
    /\ chain' = IF isValidBlock(blockData) /\ blockData.index = Len(chain)
                THEN Append(chain, blockData) ELSE chain
    /\ last' = [op |-> "handleBlock", ok |-> TRUE, from |-> peerId,
                block |-> blockData,
                sent |-> IF isValidBlock(blockData) /\ blockData.index = Len(chain)
                         THEN broadcastToPeers([type |-> "BLOCK", data |-> blockData],
                                               peerId)
                         ELSE <<>>,
                chain0 |-> chain, pool0 |-> pendingTransactions]
    /\ UNCHANGED <<now, pendingTransactions, isInitialized, difficulty,
                   maxTransactionsPerBlock, nextId, blocksFile, pendingFile, netVars>>

\* KeetaNode.handleTransaction(peerId, txData). addTransaction is an async
\* function: what it throws rejects the promise it returns, which nobody
\* awaits, so the catch of line 827 is never entered and the broadcast of
\* line 822 always runs.
HandleTransaction(peerId, txData) ==
    /\ UNCHANGED <<blockVars, dialVars, worldVars, storeVars, jobVars, procVars>>
    /\ isInitialized
    /\ peerId \in peers
    /\ Len(pendingTransactions) < MaxPool
    /\ pendingTransactions' =
           IF addTransactionError(chain, txData) = ""
           THEN Append(pendingTransactions, txData) ELSE pendingTransactions
    /\ pendingFile' =
           IF addTransactionError(chain, txData) = ""
           THEN savePendingTransactions(isInitialized, pendingFile, pendingTransactions')
           ELSE pendingFile
    /\ last' = [op |-> "handleTransaction", ok |-> TRUE, from |-> peerId,
                tx |-> txData, error |-> addTransactionError(chain, txData),
                sent |-> broadcastToPeers([type |-> "TRANSACTION", data |-> txData],
                                          peerId),
                chain0 |-> chain, pool0 |-> pendingTransactions, peers0 |-> peers]
    /\ UNCHANGED <<now, chain, isInitialized, difficulty, maxTransactionsPerBlock,
                   nextId, blocksFile, netVars>>

\* KeetaNode.handleChainResponse(peerId, {chain, height, hash})
HandleChainResponse(peerId, data) ==
    /\ UNCHANGED <<blockVars, dialVars, worldVars, storeVars, jobVars, procVars>>
    /\ isInitialized
    /\ peerId \in peers
    /\ Len(data.chain) <= MaxChain
    /\ chain' = IF data.height > Len(chain) THEN replaceChain(chain, data.chain)
                ELSE chain
    /\ last' = [op |-> "handleChainResponse", ok |-> TRUE, from |-> peerId,
                data |-> data, sent |-> <<>>,
                chain0 |-> chain, pool0 |-> pendingTransactions]
    /\ UNCHANGED <<now, pendingTransactions, isInitialized, difficulty,
                   maxTransactionsPerBlock, nextId, blocksFile, pendingFile, netVars>>

\* The inputs of the model.
Amounts == {0, 4, 6000}
Senders == {<<Null, Null>>, <<"KAlice", Null>>, <<"KAlice", "sig">>}
Recipients == {"KBob", "KBadSum"}
Miners == {"KAlice", "KBob", "Kaddr1"}
Readers == {"KAlice", "KBob"}

\* A CHAIN_RESPONSE states its height apart from the chain it carries: the
\* chain's length, a height above every chain, or, for one longer chain, 0.
ChainResponses ==
    {[chain |-> c, height |-> Len(c)] : c \in PeerChains}
    \cup {[chain |-> c, height |-> MaxChain + 1] : c \in PeerChains}
    \cup {[chain |-> PlainChain(chain) \o <<PeerBlock(Len(chain), <<>>, TipHash)>>,
           height |-> 0]}

Next ==
    \/ Tick
    \/ Initialize
    \/ \E f \in Senders, t \in Recipients, a \in Amounts : AddTransaction(f[1], t, a, f[2])
    \/ \E a \in Miners : MinePendingTransactions(a)
    \/ \E a \in Readers : GetBalance(a)
    \/ IsChainValid

Spec == Init /\ [][Next]_vars

\* ------------------------------------------------------------ LedgerSpec
\* The same ledger with a cap no pool of the model reaches, as no pool of a
\* few transactions reaches the cap of 10000 the constructor sets: a block
\* takes the whole pool.
LedgerInit == InitWith(MaxPool)

LedgerSpec == LedgerInit /\ [][Next]_vars

\* -------------------------------------------------------------- HardSpec
\* The ledger of Spec, at the difficulty of Spec or at one no hash of the
\* model meets, so that the nonce search of mineBlock runs out.
HardInit == \E d \in {Difficulty, MaxDifficulty} : InitOf(MaxCap, d)

HardSpec == HardInit /\ [][Next]_vars

\* ------------------------------------------------------------- StoreSpec
\* The ledger over a store that can fail, across runs of the process. A new
\* run starts at a later reading of the clock with what new Blockchain() and
\* new KeetaNode() build; the files stay.
Restart ==
    /\ UNCHANGED <<blockVars, storeVars, peerChain, wire>>
    /\ relayed' = [relayed EXCEPT !["A"] = <<>>]
    /\ peerInfo' = <<>>
    /\ dialing' = <<>>
    /\ isInitialized
    /\ now < MaxTime
    /\ now' = now + 1
    /\ chain' = <<>>
    /\ pendingTransactions' = <<>>
    /\ isInitialized' = FALSE
    /\ peers' = {}
    /\ connectedPeers' = <<>>
    /\ hashRate' = 0
    /\ miningJobs' = <<>>
    /\ alive' = TRUE
    /\ last' = [op |-> "new", ok |-> TRUE]
    /\ UNCHANGED <<difficulty, maxTransactionsPerBlock, nextId, blocksFile,
                   pendingFile, nextPeer>>

StoreNext ==
    \/ Tick
    \/ \E s \in StoreBehaviours : InitializeOver(s)
    \/ \E w \in BOOLEAN : AddTransactionOver("KAlice", "KBob", 6000, "sig", w)
    \/ MinePendingTransactions("KAlice")
    \/ Restart

StoreSpec == Init /\ [][StoreNext]_vars

\* ------------------------------------------------------------ MiningAPI
\* POST /mining/start with a miner address: a new job, 'running', whose
\* first iteration runs once the import of line 266 has resolved.
NewJob(minerAddress) ==
    [minerAddress |-> minerAddress, status |-> "running", blocksMined |-> 0]

StartMining(minerAddress) ==
    /\ UNCHANGED <<blockVars, dialVars, worldVars, netVars, storeVars, procVars>>
    /\ isInitialized
    /\ Len(miningJobs) < MaxJobs
    /\ miningJobs' = Append(miningJobs, NewJob(minerAddress))
    /\ last' = [op |-> "startMining", ok |-> TRUE, job |-> Len(miningJobs) + 1,
                jobs0 |-> miningJobs]
    /\ UNCHANGED <<now, chain, pendingTransactions, isInitialized, difficulty,
                   maxTransactionsPerBlock, nextId, blocksFile, pendingFile>>

\* POST /mining/stop/:jobId for a job of the map, whatever its status
StopMining(jobId) ==
    /\ UNCHANGED <<blockVars, dialVars, worldVars, netVars, storeVars, procVars>>
    /\ isInitialized
    /\ jobId \in 1..Len(miningJobs)
    /\ miningJobs' = [miningJobs EXCEPT ![jobId].status = "stopped"]
    /\ last' = [op |-> "stopMining", ok |-> TRUE, job |-> jobId, jobs0 |-> miningJobs]
    /\ UNCHANGED <<now, chain, pendingTransactions, isInitialized, difficulty,
                   maxTransactionsPerBlock, nextId, blocksFile, pendingFile>>

\* the job's loop emptying the pool
jobRemainingTransactionsNone(pool, cap) == <<>>

\* The transactions a job's iteration puts in its block (lines 273-281) and
\* the pool it leaves (lines 302-304).
jobTransactionsToMine(pool, cap, rewardTx) ==
    Append(SubSeq(pool, 1, Min(Len(pool), cap)), rewardTx)

jobRemainingTransactions(pool, cap) == SubSeq(pool, cap + 1, Len(pool))

\* the test of line 269 letting a stopped job through
isRunningOrStopped(job) == job.status \in {"running", "stopped"}

\* if (job.status !== 'running') return;
isRunning(job) == job.status = "running"

\* One run of the closure mineBlock of MiningAPI.startMining for a job: the
\* first, or one a timer of line 313 set off. A job that is not running
\* returns at once. Else the block is built and mined as in
\* minePendingTransactions, counted, pushed, and broadcast to every peer;
\* nothing is written to the store. A throw sets the job's status to
\* 'error'. The job's hashRate, a quotient of clock readings, is left out.
\* What it sends is in last.sent; the links are left to the caller.
JobIteration(jobId) ==
    /\ UNCHANGED <<blockVars, dialVars, storeVars, procVars>>
    /\ isInitialized
    /\ jobId \in 1..Len(miningJobs)
    /\ Len(chain) < MaxChain
    /\ LET job == miningJobs[jobId]
           made == TransactionConstructor(Null, job.minerAddress, miningReward,
                                          nextId, now)
           txs == jobTransactionsToMine(pendingTransactions, maxTransactionsPerBlock,
                                        made.tx)
           mined == mineBlock(NewBlock(Len(chain), txs, getLatestBlock(chain).hash, now),
                              difficulty)
           before == [op |-> "mineJobIteration", job |-> jobId,
                      address |-> job.minerAddress, jobs0 |-> miningJobs,
                      chain0 |-> chain, pool0 |-> pendingTransactions]
       IN IF ~isRunning(job)
          THEN /\ last' = before @@ [ok |-> TRUE, ran |-> FALSE, error |-> "",
                                     sent |-> <<>>]
               /\ UNCHANGED <<chain, pendingTransactions, nextId, miningJobs>>
          ELSE IF ~made.ok
          THEN /\ last' = before @@ [ok |-> FALSE, ran |-> TRUE, error |-> made.error,
                                     sent |-> <<>>]
               /\ miningJobs' = [miningJobs EXCEPT ![jobId].status = "error"]
               /\ UNCHANGED <<chain, pendingTransactions, nextId>>
          ELSE IF ~mined.ok
          THEN /\ last' = before @@ [ok |-> FALSE, ran |-> TRUE,
                                     error |-> "Mining timeout", sent |-> <<>>]
               /\ miningJobs' = [miningJobs EXCEPT ![jobId].status = "error"]
               /\ UNCHANGED <<chain, pendingTransactions, nextId>>
          ELSE /\ chain' = Append(chain, mined.block)
               /\ pendingTransactions' =
                      jobRemainingTransactions(pendingTransactions,
                                               maxTransactionsPerBlock)
               /\ nextId' = nextId + 1
               /\ miningJobs' = [miningJobs EXCEPT ![jobId].blocksMined = @ + 1]
               /\ last' = before @@
                          [ok |-> TRUE, ran |-> TRUE, error |-> "",
                           sent |-> broadcastToPeers([type |-> "BLOCK",
                                                      data |-> mined.block], NoPeer)]
    /\ UNCHANGED <<now, isInitialized, difficulty, maxTransactionsPerBlock,
                   blocksFile, pendingFile, netVars>>

\* The same for a node whose peers are left out of the model.
MineJobIteration(jobId) == JobIteration(jobId) /\ UNCHANGED worldVars

\* POST /mining/submit with all three fields given: the handler reaches
\* require(...) on line 215, which an ES module does not define; the
\* ReferenceError is caught on line 254 and answered with status 500, before
\* any block is built.
SubmitBlock(blockData) ==
    /\ UNCHANGED <<blockVars, dialVars, worldVars, storeVars, jobVars, procVars>>
    /\ isInitialized
    /\ last' = [op |-> "submit", ok |-> FALSE, error |-> "require is not defined",
                block |-> blockData, chain0 |-> chain, pool0 |-> pendingTransactions]
    /\ UNCHANGED <<now, chain, pendingTransactions, isInitialized, difficulty,
                   maxTransactionsPerBlock, nextId, blocksFile, pendingFile, netVars>>

\* ------------------------------------------------------------ GossipSpec
\* The node among its peers: connections, the three messages that reach the
\* ledger, the ledger's own operations on one sender and one miner, and one
\* mining job. Peers that leave are the matter of NodeSpec.
Peers == 1..MaxPeers

\* handleChainResponse uses its peerId for a log line only: the responses of
\* the model come from the peer that has been connected longest.
FirstPeer == IF connectedPeers = <<>> THEN NoPeer ELSE Head(connectedPeers)

GossipNext ==
    \/ Initialize
    \/ HandleConnection
    \/ \E p \in Peers, b \in PeerBlocks : HandleBlock(p, b)
    \/ \E p \in Peers, t \in PeerTransactions : HandleTransaction(p, t)
    \/ \E d \in ChainResponses : HandleChainResponse(FirstPeer, d)
    \/ AddTransaction("KAlice", "KBob", 6000, "sig")
    \/ MinePendingTransactions("KAlice")
    \/ (miningJobs = <<>> /\ StartMining("KAlice"))
    \/ MineJobIteration(1)
    \/ SubmitBlock(PeerBlock(Len(chain), <<>>, TipHash))
    \/ IsChainValid

GossipSpec == Init /\ [][GossipNext]_vars

\* ------------------------------------------------------------ MiningSpec
\* The mining jobs of MiningAPI over the ledger and the node's peers: jobs
\* are started for a well-formed and for a malformed miner address, stopped,
\* and run their iterations in any order.
JobIds == 1..MaxJobs

MiningNext ==
    \/ Initialize
    \/ HandleConnection
    \/ \E m \in {"KAlice", "Kaddr1"} : StartMining(m)
    \/ \E j \in JobIds : StopMining(j)
    \/ \E j \in JobIds : MineJobIteration(j)
    \/ AddTransaction("KAlice", "KBob", 6000, "sig")

MiningSpec == Init /\ [][MiningNext]_vars

\* -------------------------------------------------------------- NodeSpec
\* The node as its process runs it: every text a peer's socket delivers goes
\* through handleMessage, and a promise that is rejected with nobody
\* handling it ends the process (Node 18, the runtime the Dockerfile names,
\* with no 'unhandledRejection' listener anywhere in the repository).

\* Texts a peer sends, by kind: json tells whether JSON.parse accepts the
\* text, hasData whether its data member is an object.
MessageKinds ==
    {"not JSON", "unknown type", "HASHRATE_UPDATE", "HASHRATE_UPDATE without data",
     "CHAIN_RESPONSE without data", "TRANSACTION", "BLOCK", "CHAIN_REQUEST"}

DiscoveryKinds ==
    {"PEER_DISCOVERY of B", "PEER_DISCOVERY of C", "PEER_DISCOVERY of the own port",
     "PEER_DISCOVERY without data"}

PeerMessage(kind) ==
    CASE kind = "not JSON" ->
           [json |-> FALSE, type |-> "", hasData |-> FALSE, data |-> Null]
      [] kind = "unknown type" ->
           [json |-> TRUE, type |-> "PING", hasData |-> FALSE, data |-> Null]
      [] kind = "HASHRATE_UPDATE" ->
           [json |-> TRUE, type |-> "HASHRATE_UPDATE", hasData |-> TRUE,
            data |-> [hashRate |-> 5]]
      [] kind = "HASHRATE_UPDATE without data" ->
           [json |-> TRUE, type |-> "HASHRATE_UPDATE", hasData |-> FALSE, data |-> Null]
      [] kind = "CHAIN_RESPONSE without data" ->
           [json |-> TRUE, type |-> "CHAIN_RESPONSE", hasData |-> FALSE, data |-> Null]
      [] kind = "TRANSACTION" ->
           [json |-> TRUE, type |-> "TRANSACTION", hasData |-> TRUE,
            data |-> PeerTransaction("KAlice", "sig")]
      [] kind = "BLOCK" ->
           [json |-> TRUE, type |-> "BLOCK", hasData |-> TRUE,
            data |-> PeerBlock(Len(chain), <<>>, TipHash)]
      [] kind = "CHAIN_REQUEST" ->
           [json |-> TRUE, type |-> "CHAIN_REQUEST", hasData |-> FALSE, data |-> Null]
      [] kind = "PEER_DISCOVERY of B" ->
           [json |-> TRUE, type |-> "PEER_DISCOVERY", hasData |-> TRUE,
            data |-> [nodeId |-> "B", address |-> "localhost", port |-> 6002]]
      [] kind = "PEER_DISCOVERY of C" ->
           [json |-> TRUE, type |-> "PEER_DISCOVERY", hasData |-> TRUE,
            data |-> [nodeId |-> "C", address |-> "localhost", port |-> 6003]]
      [] kind = "PEER_DISCOVERY of the own port" ->
           [json |-> TRUE, type |-> "PEER_DISCOVERY", hasData |-> TRUE,
            data |-> [nodeId |-> "self", address |-> "localhost", port |-> OwnPort]]
      [] kind = "PEER_DISCOVERY without data" ->
           [json |-> TRUE, type |-> "PEER_DISCOVERY", hasData |-> FALSE, data |-> Null]

\* KeetaNode.isPeerConnected(address), address being `${address}:${port}`:
\* some entry of the map has that address and that port. (Two different
\* pairs give two different texts for the addresses and ports of the model.)
isPeerConnected(entries, address, port) ==
    \E id \in DOMAIN entries :
        entries[id].address = address /\ entries[id].port = port

\* The sockets handlePeerDiscovery(peerId, data) has connectToPeer make:
\* one to data.address:data.port, or none.
handlePeerDiscovery(entries, data) ==
    IF ~isPeerConnected(entries, data.address, data.port) /\ data.port # OwnPort
    THEN <<[address |-> data.address, port |-> data.port]>>
    ELSE <<>>


\* What handleMessage(peerId, message) does to the node: threw tells that
\* its catch was entered (JSON.parse or the handler threw), rejected that
\* the handler left a rejected promise behind. handleTransaction calls the
\* async addTransaction without await, so what addTransaction throws never
\* reaches the catch of line 827 nor that of handleMessage.
Handled ==
    [threw |-> FALSE, rejected |-> FALSE, chain |-> chain,
     pool |-> pendingTransactions, hashRate |-> hashRate, sent |-> <<>>,
     dial |-> <<>>, relay |-> <<>>]

handleMessage(peerId, message) ==
    IF ~message.json THEN [Handled EXCEPT !.threw = TRUE]
    ELSE IF message.type = "BLOCK"
    THEN (IF message.hasData /\ acceptsBlock(chain, message.data)
          THEN [Handled EXCEPT
                   !.chain = Append(chain, message.data),
                   !.sent = broadcastToPeers([type |-> "BLOCK", data |-> message.data],
                                             peerId),
                   !.relay = <<message.data.index>>]
          ELSE Handled)
    ELSE IF message.type = "TRANSACTION"
    THEN LET error == IF message.hasData THEN addTransactionError(chain, message.data)
                      ELSE "Cannot read properties of null"
         IN [Handled EXCEPT
                !.rejected = (error # ""),
                !.pool = IF error = "" THEN Append(pendingTransactions, message.data)
                         ELSE pendingTransactions,
                !.sent = broadcastToPeers([type |-> "TRANSACTION",
                                           data |-> message.data], peerId)]
    ELSE IF message.type = "CHAIN_RESPONSE"
    THEN (IF ~message.hasData THEN [Handled EXCEPT !.threw = TRUE]
          ELSE [Handled EXCEPT
                   !.chain = IF message.data.height > Len(chain)
                             THEN replaceChain(chain, message.data.chain) ELSE chain])
    ELSE IF message.type = "HASHRATE_UPDATE"
    THEN (IF ~message.hasData THEN [Handled EXCEPT !.threw = TRUE]
          ELSE [Handled EXCEPT !.hashRate = message.data.hashRate])
    ELSE IF message.type = "CHAIN_REQUEST"
    THEN [Handled EXCEPT !.sent = sendToPeer(peers, peerId, chainResponse(chain))]
    ELSE IF message.type = "PEER_DISCOVERY"
    THEN (IF ~message.hasData THEN [Handled EXCEPT !.threw = TRUE]
          ELSE [Handled EXCEPT !.dial = handlePeerDiscovery(peerInfo, message.data)])
    ELSE Handled

\* The 'message' listener of line 739 as one turn of the event loop:
\* handleMessage, then the promises it left behind. A rejected one ends the
\* process. What it sends is in last.sent; the links are left to the caller.
Receive(peerId, message) ==
    /\ UNCHANGED <<blockVars, storeVars, jobVars, peerInfo>>
    /\ isInitialized
    /\ peerId \in peers
    /\ LET r == handleMessage(peerId, message)
       IN /\ chain' = r.chain
          /\ pendingTransactions' = r.pool
          /\ pendingFile' = IF r.pool = pendingTransactions THEN pendingFile
                            ELSE savePendingTransactions(isInitialized, pendingFile, r.pool)
          /\ hashRate' = r.hashRate
          /\ dialing' = dialing \o r.dial
          /\ relayed' = [relayed EXCEPT !["A"] = @ \o r.relay]
          /\ alive' = ~r.rejected
          /\ last' = [op |-> "handleMessage", ok |-> ~r.threw /\ ~r.rejected,
                      from |-> peerId, message |-> message, threw |-> r.threw,
                      rejected |-> r.rejected, sent |-> r.sent,
                      chain0 |-> chain, pool0 |-> pendingTransactions,
                      peers0 |-> peers, connected0 |-> connectedPeers,
                      hashRate0 |-> hashRate, dial |-> r.dial, info0 |-> peerInfo]
    /\ UNCHANGED <<now, isInitialized, difficulty, maxTransactionsPerBlock, nextId,
                   blocksFile, peers, connectedPeers, nextPeer>>

\* The same for a node whose peers are left out of the model, within the
\* bounds of chain and pool.
OnMessage(peerId, message) ==
    /\ Len(chain) < MaxChain
    /\ Len(pendingTransactions) < MaxPool
    /\ Receive(peerId, message)
    /\ UNCHANGED <<peerChain, wire>>

\* KeetaNode.updateHashRate(newHashRate)
UpdateHashRate(newHashRate) ==
    /\ UNCHANGED <<blockVars, dialVars, worldVars, storeVars, jobVars, procVars>>
    /\ isInitialized
    /\ hashRate' = newHashRate
    /\ last' = [op |-> "updateHashRate", ok |-> TRUE, from |-> NoPeer,
                message |-> [type |-> "HASHRATE_UPDATE",
                             data |-> [hashRate |-> newHashRate]],
                sent |-> broadcastToPeers([type |-> "HASHRATE_UPDATE",
                                           data |-> [hashRate |-> newHashRate]], NoPeer),
                peers0 |-> peers, connected0 |-> connectedPeers]
    /\ UNCHANGED <<now, chain, pendingTransactions, isInitialized, difficulty,
                   maxTransactionsPerBlock, nextId, blocksFile, pendingFile,
                   peers, connectedPeers, nextPeer>>

NodeNext ==
    \/ (alive /\ Initialize)
    \/ (alive /\ HandleConnection)
    \/ (alive /\ \E p \in Peers : HandleDisconnection(p))
    \/ (alive /\ \E p \in Peers, k \in MessageKinds : OnMessage(p, PeerMessage(k)))
    \/ (alive /\ UpdateHashRate(5))
    \/ Restart

NodeSpec == Init /\ [][NodeNext]_vars

\* --------------------------------------------------------- DiscoverySpec
\* The node and the connections it makes: other nodes call it, peers send it
\* PEER_DISCOVERY, and the sockets connectToPeer made open or fail later, in
\* any order.
WithoutDial(dials, i) == SubSeq(dials, 1, i - 1) \o SubSeq(dials, i + 1, Len(dials))

\* The server's 'connection' event (line 717) for a call of node, which
\* calls only while it holds no connection with this node.
AcceptConnection(node) ==
    /\ \A id \in peers : peerInfo[id].node # node
    /\ HandleConnectionOf(InboundAddress, EphemeralPort(nextPeer), node, dialing)

\* The 'open' event of a socket connectToPeer(address, port) made (lines
\* 872-875): handleConnection with the address and port that were called.
DialOpens(i) ==
    /\ i \in 1..Len(dialing)
    /\ HandleConnectionOf(dialing[i].address, dialing[i].port,
                          Listening(dialing[i].port), WithoutDial(dialing, i))

\* The 'error' event of a socket connectToPeer made that never opened (lines
\* 877-879): a line in the log.
DialFails(i) ==
    /\ UNCHANGED <<blockVars, worldVars, storeVars, jobVars, procVars, peerInfo>>
    /\ i \in 1..Len(dialing)
    /\ dialing' = WithoutDial(dialing, i)
    /\ last' = [op |-> "connectError", ok |-> TRUE]
    /\ UNCHANGED <<now, chain, pendingTransactions, isInitialized, difficulty,
                   maxTransactionsPerBlock, nextId, blocksFile, pendingFile,
                   peers, connectedPeers, nextPeer, hashRate>>

DiscoveryNext ==
    \/ Initialize
    \/ \E node \in RemoteNodes : AcceptConnection(node)
    \/ \E p \in 1..MaxPeers, k \in DiscoveryKinds :
           Len(dialing) < MaxDials /\ OnMessage(p, PeerMessage(k))
    \/ \E i \in 1..MaxDials : DialOpens(i)
    \/ \E i \in 1..MaxDials : DialFails(i)
    \/ \E p \in 1..MaxPeers : HandleDisconnection(p)

DiscoverySpec == Init /\ [][DiscoveryNext]_vars

\* --------------------------------------------------------------- NetSpec
\* Three nodes that run the same code, each connected with the two others,
\* after they started from one chain: this node with its handlers, the
\* others by what handleBlock and a mining job do to their chains. A link
\* delivers in order; BLOCK is the one message that travels (nothing in the
\* repository sends CHAIN_REQUEST, and CHAIN_RESPONSE is sent on connection
\* only). Nodes A and B mine.
Links == {l \in NetNodes \X NetNodes : l[1] # l[2]}
NetMiners == {"A", "B"}
MinerAddress(n) == IF n = "A" THEN "KAlice" ELSE "KBob"

ownVars == <<now, chain, pendingTransactions, isInitialized, difficulty,
             maxTransactionsPerBlock, nextId, blocksFile, pendingFile, backups,
             peers, connectedPeers, nextPeer, hashRate, miningJobs, alive,
             peerInfo, dialing, block, target, pc>>

\* The entry this node's map holds for node n
PeerIdOf(n) == CHOOSE id \in DOMAIN peerInfo : peerInfo[id].node = n

\* JSON.parse(message) at the receiver of a BLOCK: the block without its
\* prototype.
Parsed(message) ==
    [json |-> TRUE, type |-> message.type, hasData |-> TRUE,
     data |-> PlainBlock(message.data)]

\* ws.send for each message this node sent, on the link of the peer's node
RECURSIVE Posted(_, _)
Posted(w, sent) ==
    IF sent = <<>> THEN w
    ELSE Posted([w EXCEPT ![<<"A", peerInfo[Head(sent).to].node>>] =
                              Append(@, Head(sent).message)],
                Tail(sent))

\* broadcastToPeers(message, exclude) of node n, a peer of every other node
PostedFrom(w, n, message, exclude) ==
    [l \in Links |-> IF l[1] = n /\ l[2] # exclude THEN Append(w[l], message)
                     ELSE w[l]]

\* The three nodes connected, each with the genesis block of the first, the
\* CHAIN_RESPONSE of each connection delivered (equal heights: no effect),
\* and a mining job started on this node.
NetInit ==
    /\ now = 1
    /\ chain = <<createGenesisBlock(1)>>
    /\ pendingTransactions = <<>>
    /\ isInitialized = TRUE
    /\ difficulty = Difficulty
    /\ maxTransactionsPerBlock = MaxCap
    /\ nextId = 1
    /\ blocksFile = <<>>
    /\ pendingFile = <<>>
    /\ backups = <<>>
    /\ peers = {1, 2}
    /\ connectedPeers = <<1, 2>>
    /\ nextPeer = 3
    /\ hashRate = 0
    /\ miningJobs = <<NewJob(MinerAddress("A"))>>
    /\ alive = TRUE
    /\ peerInfo = <<[address |-> InboundAddress, port |-> EphemeralPort(1), node |-> "B"],
                    [address |-> InboundAddress, port |-> EphemeralPort(2), node |-> "C"]>>
    /\ dialing = <<>>
    /\ peerChain = [n \in Others |-> PlainChain(<<createGenesisBlock(1)>>)]
    /\ wire = [l \in Links |-> <<>>]
    /\ relayed = [n \in NetNodes |-> <<>>]
    /\ last = [op |-> "new", ok |-> TRUE]
    /\ block = NoBlock
    /\ target = 0
    /\ pc = "none"

\* An iteration of this node's mining job, its BLOCK put on the links
NodeMines ==
    /\ JobIteration(1)
    /\ wire' = Posted(wire, last'.sent)
    /\ UNCHANGED <<peerChain, relayed>>

\* This node takes the oldest message of the link from node n
NodeReceives(n) ==
    /\ wire[<<n, "A">>] # <<>>
    /\ Receive(PeerIdOf(n), Parsed(Head(wire[<<n, "A">>])))
    /\ wire' = Posted([wire EXCEPT ![<<n, "A">>] = Tail(@)], last'.sent)
    /\ UNCHANGED peerChain

\* An iteration of a mining job of node n (mining.js lines 268-309) with an
\* empty pool: the block holds the reward, is pushed and broadcast to all.
PeerMines(n) ==
    /\ UNCHANGED ownVars
    /\ Len(peerChain[n]) < MaxChain
    /\ LET c == peerChain[n]
           made == TransactionConstructor(Null, MinerAddress(n), miningReward,
                                          Len(c), now)
           mined == mineBlock(NewBlock(Len(c), <<made.tx>>, getLatestBlock(c).hash, now),
                              difficulty)
       IN /\ made.ok /\ mined.ok
          /\ peerChain' = [peerChain EXCEPT ![n] = Append(c, mined.block)]
          /\ wire' = PostedFrom(wire, n, [type |-> "BLOCK", data |-> mined.block], "")
          /\ last' = [op |-> "peerMines", ok |-> TRUE, node |-> n,
                      block |-> mined.block]
    /\ UNCHANGED relayed

\* KeetaNode.handleBlock of node n for the oldest message of the link from
\* node from (lines 794-813)
PeerReceives(n, from) ==
    /\ UNCHANGED ownVars
    /\ from # n
    /\ wire[<<from, n>>] # <<>>
    /\ LET blockData == PlainBlock(Head(wire[<<from, n>>]).data)
           w == [wire EXCEPT ![<<from, n>>] = Tail(@)]
       IN IF acceptsBlock(peerChain[n], blockData)
          THEN /\ peerChain' = [peerChain EXCEPT ![n] = Append(@, blockData)]
               /\ wire' = PostedFrom(w, n, [type |-> "BLOCK", data |-> blockData], from)
               /\ relayed' = [relayed EXCEPT ![n] = Append(@, blockData.index)]
               /\ last' = [op |-> "peerReceives", ok |-> TRUE, node |-> n,
                           block |-> blockData, accepted |-> TRUE]
          ELSE /\ wire' = w
               /\ UNCHANGED <<peerChain, relayed>>
               /\ last' = [op |-> "peerReceives", ok |-> TRUE, node |-> n,
                           block |-> blockData, accepted |-> FALSE]

\* Some node takes a message off a link
Deliver ==
    \/ \E n \in Others : NodeReceives(n)
    \/ \E n \in Others, from \in NetNodes : PeerReceives(n, from)

NetNext ==
    \/ NodeMines
    \/ \E n \in NetMiners \ {"A"} : PeerMines(n)
    \/ Deliver

\* A socket delivers what was sent on it: no message stays on a link for
\* ever.
NetSpec == NetInit /\ [][NetNext]_vars /\ WF_vars(Deliver)

\* ------------------------------------------------------------- BlockSpec
\* The life of one Block on its own: new Block(...), then mineBlock(d), over
\* bounded inputs. The ledger stays as constructed.
nodeVars == <<now, chain, pendingTransactions, isInitialized, difficulty,
              maxTransactionsPerBlock, nextId, blocksFile, pendingFile, backups,
              peers, connectedPeers, nextPeer, hashRate, miningJobs, alive,
              peerInfo, dialing, peerChain, wire, relayed, last>>

RewardTransaction ==
    TransactionConstructor(Null, "KAlice", miningReward, 1, 1).tx

\* A payment as new Transaction leaves it, unsigned, and the same signed.
UnsignedTransaction ==
    TransactionConstructor("KAlice", "KBob", 6000, 2, 1).tx

SignedTransaction == [UnsignedTransaction EXCEPT !.signature = "sig"]

BlockTransactions ==
    {<<>>, <<RewardTransaction>>, <<SignedTransaction, RewardTransaction>>,
     <<UnsignedTransaction, RewardTransaction>>}
BlockPreviousHashes == {ZeroString, Bogus, createGenesisBlock(1).hash}

Construct(index, transactions, previousHash, timestamp, d) ==
    /\ pc = "none"
    /\ block' = NewBlock(index, transactions, previousHash, timestamp)
    /\ target' = d
    /\ pc' = "constructed"
    /\ UNCHANGED nodeVars

Mine ==
    /\ pc = "constructed"
    /\ block' = mineBlock(block, target).block
    /\ pc' = IF mineBlock(block, target).ok THEN "mined" ELSE "overflow"
    /\ UNCHANGED <<target, nodeVars>>

\* block.hasValidTransactions(), on a block constructed or mined
HasValidTransactions ==
    /\ pc \in {"constructed", "mined"}
    /\ last' = [op |-> "hasValidTransactions",
                ok |-> hasValidTransactions(block) # "throw",
                result |-> hasValidTransactions(block)]
    /\ UNCHANGED <<now, chain, pendingTransactions, isInitialized, difficulty,
                   maxTransactionsPerBlock, nextId, blocksFile, pendingFile,
                   netVars, blockVars, storeVars, jobVars, procVars, dialVars,
                   worldVars>>

BlockNext ==
    \/ \E i \in 0..(MaxChain - 1), t \in BlockTransactions, p \in BlockPreviousHashes,
          ts \in 1..MaxTime, d \in 0..MaxDifficulty : Construct(i, t, p, ts, d)
    \/ Mine
    \/ HasValidTransactions

BlockSpec == Init /\ [][BlockNext]_vars

\* ---------------------------------------------------------- MineLoopSpec
\* mineBlock turn by turn: each step is one test of the while condition of
\* line 516 and, when the hash misses the target, one turn of the body. The
\* loop is straight-line code that nothing suspends, so its steps are taken
\* as long as one is due (weak fairness).

\* this.nonce++ wrapping round like a counter of fixed width
nextNonceWrapping(nonce) == (nonce + 1) % (MaxNonce + 1)

\* this.nonce++ on a double: exact up to 2^53, one past MAX_SAFE_INTEGER
nextNonce(nonce) == nonce + 1

MineStep ==
    /\ pc \in {"constructed", "mining"}
    /\ IF MeetsTarget(block.hash, target)
       THEN /\ pc' = "mined"
            /\ UNCHANGED block
       ELSE LET n == nextNonce(block.nonce)
            IN /\ block' = [block EXCEPT !.nonce = n,
                                         !.hash = calculateHash([block EXCEPT !.nonce = n])]
               /\ pc' = IF n > MaxNonce THEN "overflow" ELSE "mining"
    /\ UNCHANGED <<target, nodeVars>>

MineLoopNext ==
    \/ \E i \in 0..(MaxChain - 1), t \in BlockTransactions, p \in BlockPreviousHashes,
          ts \in 1..MaxTime, d \in 0..MaxDifficulty : Construct(i, t, p, ts, d)
    \/ MineStep

MineLoopSpec == Init /\ [][MineLoopNext]_vars /\ WF_vars(MineStep)

\* ================================================================= claims
\* Helpers of the statements below.
RECURSIVE LeadingZeros(_)
LeadingZeros(hex) ==
    IF hex = <<>> \/ Head(hex) # 0 THEN 0 ELSE 1 + LeadingZeros(Tail(hex))

RECURSIVE AllTransactions(_)
AllTransactions(c) ==
    IF c = <<>> THEN <<>> ELSE Head(c).transactions \o AllTransactions(Tail(c))

RECURSIVE SumSeq(_)
SumSeq(q) == IF q = <<>> THEN 0 ELSE Head(q) + SumSeq(Tail(q))

Received(c, a) ==
    LET all == AllTransactions(c)
    IN SumSeq([i \in 1..Len(all) |-> IF all[i].toAddress = a THEN all[i].amount ELSE 0])

Sent(c, a) ==
    LET all == AllTransactions(c)
    IN SumSeq([i \in 1..Len(all) |-> IF all[i].fromAddress = a THEN all[i].amount ELSE 0])

ChainIds(c) == {AllTransactions(c)[i].id : i \in 1..Len(AllTransactions(c))}

\* The chain holds only blocks this ledger built itself: its genesis block
\* and the blocks minePendingTransactions appended.
BuiltByMining(c) == \A i \in 1..Len(c) : c[i].proto

\* C1: in every reachable state every block after the first names the hash
\* of the block before it as its previousHash.
C1_ChainLinked ==
    \A i \in 2..Len(chain) : chain[i].previousHash = chain[i - 1].hash

\* C2: isChainValid() returns true on a ledger that holds only its genesis
\* block and the blocks minePendingTransactions appended, at whatever clock
\* time the check is made.
C2_ValidWhenBuiltByMining ==
    (last.op = "isChainValid" /\ BuiltByMining(chain)) => last.result = "true"

\* C3: when replaceChain(candidate) has run, the chain is the candidate if
\* the candidate was longer than the chain, and the chain as it was
\* otherwise; it is never anything else.
C3_ReplaceOnlyLonger ==
    (last.op = "handleChainResponse" /\ last.data.height > Len(last.chain0)) =>
        chain = IF Len(last.data.chain) > Len(last.chain0)
                THEN last.data.chain ELSE last.chain0

C3_Witness ==
    /\ last.op = "handleChainResponse"
    /\ last.data.height > Len(last.chain0)
    /\ Len(last.data.chain) = Len(last.chain0)
    /\ last.data.chain # last.chain0
    /\ chain = last.chain0

\* C4: in every reachable state no transaction of the pending pool is also
\* in a block of the chain.
C4_PoolDisjointFromChain ==
    \A i \in 1..Len(pendingTransactions) :
        pendingTransactions[i].id \notin ChainIds(chain)

\* C5: addTransaction(tx) fails and leaves the pool as it was whenever the
\* amount is not positive, the sender's balance is below the amount, or the
\* sender is given and the signature is missing; it appends tx to the end of
\* the pool only when none of these holds, and changes the pool in no other
\* way.
C5_AddTransactionRejects ==
    last.op = "addTransaction" =>
        /\ (\/ last.tx.amount <= 0
            \/ getBalance(last.chain0, last.tx.fromAddress) < last.tx.amount
            \/ (last.tx.fromAddress # Null /\ last.tx.signature = Null)) => ~last.ok
        /\ ~last.ok => pendingTransactions = last.pool0
        /\ last.ok => pendingTransactions = Append(last.pool0, last.tx)

C5_Witness ==
    /\ last.op = "addTransaction"
    /\ ~last.ok
    /\ last.tx.amount > 0
    /\ last.tx.fromAddress # Null
    /\ last.tx.signature # Null
    /\ getBalance(last.chain0, last.tx.fromAddress) < last.tx.amount
    /\ Len(last.pool0) > 0

\* C6: for every difficulty d >= 1, when mineBlock(d) has returned normally
\* the hash of the block starts with at least d '0' characters.
C6_MinedMeetsDifficulty ==
    (pc = "mined" /\ target >= 1) => LeadingZeros(block.hash.hex) >= target

C6_Witness ==
    /\ pc = "mined"
    /\ target >= 2
    /\ block.nonce > 0

\* C7: from the end of its construction on, before mineBlock and after it
\* has returned, the hash of a Block is the content hash of its index,
\* timestamp, transactions, previousHash and current nonce.
C7_HashIsContentHash ==
    pc \in {"constructed", "mined"} => block.hash = calculateHash(block)

\* C8: a call minePendingTransactions(rewardAddress) that returns appends
\* exactly one block; its transactions are the first min(|P|, cap) entries
\* of the pool P in order, then one reward transaction (null, rewardAddress,
\* miningReward); the pool afterwards is the rest of P in order.
C8_MineTakesOldestUpToCap ==
    (last.op = "minePendingTransactions" /\ last.ok) =>
        LET P == last.pool0
            k == Min(Len(P), maxTransactionsPerBlock)
            newest == chain[Len(chain)]
            reward == newest.transactions[k + 1]
        IN /\ Len(chain) = Len(last.chain0) + 1
           /\ SubSeq(chain, 1, Len(last.chain0)) = last.chain0
           /\ Len(newest.transactions) = k + 1
           /\ \A i \in 1..k : newest.transactions[i] = P[i]
           /\ reward.fromAddress = Null
           /\ reward.toAddress = last.address
           /\ reward.amount = miningReward
           /\ Len(pendingTransactions) = Len(P) - k
           /\ \A i \in 1..(Len(P) - k) : pendingTransactions[i] = P[k + i]

C8_Witness ==
    /\ last.op = "minePendingTransactions"
    /\ last.ok
    /\ Len(last.pool0) > maxTransactionsPerBlock
    /\ Len(pendingTransactions) > 0

\* C9 as the specification states it: on a genesis-only ledger with an
\* empty pool, one call minePendingTransactions(addr) makes the chain two
\* blocks long and getBalance(addr) equal to miningReward, for addr "Kaddr1"
\* as for any other.
C9_Scenario ==
    (/\ last.op = "minePendingTransactions"
     /\ Len(last.chain0) = 1
     /\ last.pool0 = <<>>) =>
        /\ Len(chain) = 2
        /\ getBalance(chain, last.address) = miningReward

\* C9 as amended: the same for a call that returns; a call with an address
\* that fails validateAddress, as "Kaddr1" does, raises and leaves the chain
\* one block long.
C9_ScenarioValidAddress ==
    (/\ last.op = "minePendingTransactions"
     /\ Len(last.chain0) = 1
     /\ last.pool0 = <<>>) =>
        /\ last.ok => /\ Len(chain) = 2
                      /\ getBalance(chain, last.address) = miningReward
                      /\ validateAddress(last.address)
        /\ ~validateAddress(last.address) => ~last.ok /\ chain = last.chain0

C9_Witness ==
    /\ last.op = "minePendingTransactions"
    /\ last.ok
    /\ Len(last.chain0) = 1
    /\ last.pool0 = <<>>
    /\ difficulty = 1
    /\ getBalance(chain, last.address) = miningReward

\* C10: getBalance(a) is the sum of the amounts of the chained transactions
\* paid to a less the sum of those paid by a, and the call changes neither
\* the chain nor the pool.
C10_BalanceIsReceivedLessSent ==
    last.op = "getBalance" =>
        /\ last.result = Received(chain, last.address) - Sent(chain, last.address)
        /\ chain = last.chain0
        /\ pendingTransactions = last.pool0

C10_Witness ==
    /\ last.op = "getBalance"
    /\ Sent(chain, last.address) > 0
    /\ Received(chain, last.address) > Sent(chain, last.address)

\* C11: in every reachable state of a ledger, from its construction on, the
\* chain holds at least one block.
C11_ChainNeverEmpty ==
    Len(chain) >= 1

\* C12: in every reachable state of an initialized node chain[0] is the
\* genesis block (index 0, no transactions, previousHash "0"), and no step
\* (BLOCK, CHAIN_RESPONSE, mining) changes chain[0].
C12_GenesisFixed ==
    [][isInitialized =>
          /\ chain[1].index = 0
          /\ chain[1].transactions = <<>>
          /\ chain[1].previousHash = ZeroString
          /\ BlockJSON(chain'[1]) = BlockJSON(chain[1])]_vars

\* C13: no step makes the chain shorter.
C13_LengthNeverDecreases ==
    [][Len(chain') >= Len(chain)]_vars

C13_Witness ==
    /\ last.op = "handleChainResponse"
    /\ last.data.height > Len(last.chain0)
    /\ Len(last.data.chain) < Len(last.chain0)
    /\ Len(last.chain0) > 1
    /\ chain = last.chain0

\* The messages a broadcast of message by a node with the peer set map has
\* to send when it leaves out the peer from: one to each other peer.
SentToAllBut(sent, map, from, message) ==
    /\ Len(sent) = Cardinality(map \ {from})
    /\ \A q \in map \ {from} : \E i \in 1..Len(sent) : sent[i].to = q
    /\ \A i \in 1..Len(sent) : sent[i].to \in map \ {from} /\ sent[i].message = message

\* C14 as the specification states it: a BLOCK whose five fields are all
\* present (not null) and whose index is the chain's length is appended and
\* sent to every peer but the sender; any other BLOCK changes nothing and
\* sends nothing. Every block of the model has its five fields present.
C14_PresentBlockAppended ==
    last.op = "handleBlock" =>
        IF last.block.index = Len(last.chain0)
        THEN /\ chain = Append(last.chain0, last.block)
             /\ SentToAllBut(last.sent, peers, last.from,
                             [type |-> "BLOCK", data |-> last.block])
        ELSE chain = last.chain0 /\ last.sent = <<>>

\* C14 as amended: the same with "present" read as the code tests it, as
\* truthy: an index or timestamp of 0 and an empty hash or previousHash
\* count as missing.
C14_TruthyBlockAppended ==
    last.op = "handleBlock" =>
        IF /\ last.block.index # 0
           /\ last.block.hash # EmptyString
           /\ last.block.previousHash # EmptyString
           /\ last.block.timestamp # 0
           /\ last.block.index = Len(last.chain0)
        THEN /\ chain = Append(last.chain0, last.block)
             /\ SentToAllBut(last.sent, peers, last.from,
                             [type |-> "BLOCK", data |-> last.block])
        ELSE chain = last.chain0 /\ last.sent = <<>>

C14_Witness ==
    /\ last.op = "handleBlock"
    /\ chain = Append(last.chain0, last.block)
    /\ Len(last.sent) = 1
    /\ last.sent[1].to # last.from
    /\ Cardinality(peers) = 2

\* C15: on a TRANSACTION message the node sends the transaction on, to the
\* peers other than the sender, only if addTransaction succeeded for it;
\* when addTransaction fails nothing is sent, the pool is as it was and the
\* sender stays in the peer set.
C15_ForwardOnlyWhenAdded ==
    last.op = "handleTransaction" =>
        /\ last.error # "" => /\ last.sent = <<>>
                              /\ pendingTransactions = last.pool0
                              /\ last.from \in peers
        /\ last.error = "" => SentToAllBut(last.sent, peers, last.from,
                                           [type |-> "TRANSACTION", data |-> last.tx])

\* C16 as the specification states it: on a CHAIN_RESPONSE whose height is
\* greater than the chain's length the chain becomes the payload chain,
\* whatever the payload is; otherwise the chain is unchanged; the pool is
\* unchanged in both cases.
C16_HeightDecides ==
    last.op = "handleChainResponse" =>
        /\ chain = IF last.data.height > Len(last.chain0)
                   THEN last.data.chain ELSE last.chain0
        /\ pendingTransactions = last.pool0

\* C16 as amended: the payload is taken when, besides, it is longer than the
\* chain; its blocks are not looked at.
C16_HeightAndLengthDecide ==
    last.op = "handleChainResponse" =>
        /\ chain = IF /\ last.data.height > Len(last.chain0)
                      /\ Len(last.data.chain) > Len(last.chain0)
                   THEN last.data.chain ELSE last.chain0
        /\ pendingTransactions = last.pool0

C16_Witness ==
    /\ last.op = "handleChainResponse"
    /\ chain = last.data.chain
    /\ chain # last.chain0
    /\ chain[Len(chain)].previousHash # chain[Len(chain) - 1].hash
    /\ pendingTransactions # <<>>

\* C17: addTransaction rejects, as lacking an address, every transaction
\* whose fromAddress is null or whose toAddress is absent and leaves the
\* pool as it was; so every transaction of the pool has both addresses, and
\* a transaction without a sender is in the chain only as the reward that
\* closes a mined block.
C17_NoMintThroughAddTransaction ==
    /\ \A i \in 1..Len(pendingTransactions) :
          /\ pendingTransactions[i].fromAddress # Null
          /\ pendingTransactions[i].toAddress # Null
    /\ \A i \in 1..Len(chain) : \A j \in 1..Len(chain[i].transactions) :
          chain[i].transactions[j].fromAddress = Null =>
              /\ j = Len(chain[i].transactions)
              /\ chain[i].transactions[j].amount = miningReward
    /\ (/\ last.op = "addTransaction"
        /\ (last.tx.fromAddress = Null \/ last.tx.toAddress = Null)) =>
           /\ ~last.ok
           /\ last.error = "Transaction must include from and to address"
           /\ pendingTransactions = last.pool0

C17_Witness ==
    /\ last.op = "addTransaction"
    /\ last.tx.fromAddress = Null
    /\ last.tx.amount > 0
    /\ ~last.ok
    /\ last.pool0 # <<>>

C19_ValidationNeverRaises ==
    last.op = "hasValidTransactions" =>
        /\ last.result \in {"true", "false"}
        /\ last.result = "false" <=>
              \E i \in 1..Len(block.transactions) :
                  /\ block.transactions[i].fromAddress # Null
                  /\ block.transactions[i].signature = Null

\* C20: isChainValid() returns false, and does not raise, on every chain in
\* which some block after the first does not name the hash of the block
\* before it, or carries a hash that is not the recomputation of its
\* content, or holds an unsigned transaction with a sender, whether the
\* chain's blocks were mined here or received from peers.
C20_DefectiveChainIsInvalid ==
    (/\ last.op = "isChainValid"
     /\ \E i \in 2..Len(chain) :
           \/ chain[i].previousHash # chain[i - 1].hash
           \/ chain[i].hash # calculateHash(chain[i])
           \/ \E j \in 1..Len(chain[i].transactions) :
                 /\ chain[i].transactions[j].fromAddress # Null
                 /\ chain[i].transactions[j].signature = Null) =>
        last.result = "false"

\* What initialize() is to end with, told from the files and from what the
\* store did: the chain of blocks.json when the read went through, else the
\* chain of the newest backup when its text was read and parsed; a genesis block
\* when neither gave a block or database.initialize() threw.
ChainToLoad(store, file, kept) ==
    IF ~store.initialize THEN <<>>
    ELSE IF store.blocks = "ok" THEN file
    ELSE IF store.backup \in {"ok", "integrity"} /\ kept # <<>> THEN kept[1]
    ELSE <<>>

\* C21: initialize() returns without raising whatever the store does
\* (missing file, unparsable text, digest mismatch, I/O error), and leaves
\* the ledger initialized with a chain that is not empty: the stored chain
\* when one loads, else the genesis block alone.
C21_InitializeFallsBack ==
    last.op = "initialize" =>
        /\ last.ok
        /\ isInitialized
        /\ chain # <<>>
        /\ LET stored == ChainToLoad(last.store, last.blocksFile0, last.backups0)
           IN chain = IF stored # <<>> THEN stored ELSE <<createGenesisBlock(now)>>

C21_Witness ==
    /\ last.op = "initialize"
    /\ last.store.blocks = "integrity"
    /\ last.store.backup = "ENOENT"
    /\ Len(blocksFile) > 1
    /\ isInitialized
    /\ chain = <<createGenesisBlock(now)>>

\* C22: when addTransaction has accepted a transaction on an initialized
\* ledger, pending.json holds the pool as it is in memory; when the write
\* fails the call succeeds all the same, the transaction is in the pool in
\* memory, and pending.json is as it was.
C22_PoolSavedOrKept ==
    (last.op = "addTransaction" /\ last.ok) =>
        /\ pendingTransactions = Append(last.pool0, last.tx)
        /\ pendingFile = IF last.writeOk THEN PlainTxs(pendingTransactions)
                         ELSE last.pendingFile0

C22_Witness ==
    /\ last.op = "addTransaction"
    /\ last.ok
    /\ ~last.writeOk
    /\ pendingTransactions = Append(last.pool0, last.tx)
    /\ pendingFile # PlainTxs(pendingTransactions)

\* The run of a job's closure that came last: a job that was stopped left
\* the chain alone and sent nothing, and a block the run appended meets the
\* difficulty.
JobRunSound ==
    last.op = "mineJobIteration" =>
        /\ last.jobs0[last.job].status = "stopped" =>
               (chain = last.chain0 /\ last.sent = <<>>)
        /\ chain # last.chain0 =>
               /\ chain = Append(last.chain0, getLatestBlock(chain))
               /\ MeetsTarget(getLatestBlock(chain).hash, difficulty)

\* A job that is stopped or in error is not running after the step.
JobStaysDown ==
    \A j \in 1..Len(miningJobs) :
        miningJobs[j].status \in {"stopped", "error"} =>
            /\ j <= Len(miningJobs')
            /\ miningJobs'[j].status # "running"

\* C23: a stopped mining job appends no further block and broadcasts no
\* further BLOCK; every block a job appends had a hash meeting the
\* difficulty when it was appended; and a job that is stopped or in error
\* never becomes 'running' again.
C23_StoppedJobIsDone == [][JobRunSound' /\ JobStaysDown]_vars

C23_Witness ==
    /\ last.op = "mineJobIteration"
    /\ last.jobs0[last.job].status = "stopped"
    /\ last.jobs0[last.job].blocksMined > 0
    /\ ~last.ran
    /\ chain = last.chain0
    /\ Len(chain) < MaxChain
    /\ peers # {}

\* The chain and the pool one call minePendingTransactions(address) leaves
\* when it starts from the chain c and the pool `pool` at the clock reading
\* t, with uuidv4() returning id: as they were when the call throws.
MinedFrom(c, pool, address, id, t) ==
    LET made == TransactionConstructor(Null, address, miningReward, id, t)
        mined == mineBlock(NewBlock(Len(c),
                                    transactionsToMine(pool, maxTransactionsPerBlock,
                                                       made.tx),
                                    getLatestBlock(c).hash, t),
                           difficulty)
    IN IF made.ok /\ mined.ok
       THEN [chain |-> Append(c, mined.block),
             pool |-> remainingTransactions(pool, maxTransactionsPerBlock)]
       ELSE [chain |-> c, pool |-> pool]

\* C24: a run of a running job leaves the chain and the pool as one call
\* minePendingTransactions(job.minerAddress) from the same state would; when
\* it mined, the job's blocksMined is one more and the block now at the tip
\* of the chain has been sent as BLOCK to every connected peer, once each.
C24_JobRunIsMinePending ==
    (last.op = "mineJobIteration" /\ last.ran) =>
        LET would == MinedFrom(last.chain0, last.pool0, last.address,
                               IF last.ok THEN nextId - 1 ELSE nextId, now)
        IN /\ chain = would.chain
           /\ pendingTransactions = would.pool
           /\ last.ok =>
                  /\ miningJobs[last.job].blocksMined
                         = last.jobs0[last.job].blocksMined + 1
                  /\ last.sent =
                         [i \in 1..Len(connectedPeers) |->
                             [to |-> connectedPeers[i],
                              message |-> [type |-> "BLOCK",
                                           data |-> getLatestBlock(chain)]]]

C24_Witness ==
    /\ last.op = "mineJobIteration"
    /\ last.ran
    /\ last.ok
    /\ Len(last.pool0) > maxTransactionsPerBlock
    /\ pendingTransactions # <<>>
    /\ Len(connectedPeers) = MaxPeers
    /\ Len(last.sent) = MaxPeers

\* C25: every transaction new Transaction(...) returns carries an amount
\* above 0 once rounded to two decimals, and the constructor fails for
\* every amount given that is 0 or less.
C25_ConstructedAmountPositive ==
    last.op = "addTransaction" =>
        /\ last.tx.amount > 0
        /\ last.input > 0

\* C26: mineBlock(difficulty) always comes to an end: it returns with a
\* hash that meets the target, or it raises the overflow error with the
\* nonce past the largest safe integer; a difficulty above the length of
\* the hash ends in the error.
C26_MineBlockTerminates ==
    /\ [](pc = "mined" => MeetsTarget(block.hash, target))
    /\ [](pc = "overflow" => block.nonce > MaxNonce)
    /\ (pc = "constructed") ~> (pc \in {"mined", "overflow"})

C26_Witness ==
    /\ pc = "overflow"
    /\ target > HashLen
    /\ block.nonce = MaxNonce + 1

\* A message the node has to drop: text that is not JSON, a type no
\* handler is registered for, or a message whose handler failed.
Dropped(record) ==
    \/ ~record.message.json
    \/ record.message.type \notin {"BLOCK", "TRANSACTION", "PEER_DISCOVERY",
                                   "CHAIN_REQUEST", "CHAIN_RESPONSE", "HASHRATE_UPDATE"}
    \/ record.threw
    \/ record.rejected

\* C27: a message that is not JSON, has an unknown type or makes its
\* handler fail is dropped: chain, pool, peer set and hashRate are as they
\* were, the sender is still a peer, and the node goes on handling messages.
C27_BadMessageDropped ==
    (last.op = "handleMessage" /\ Dropped(last)) =>
        /\ chain = last.chain0
        /\ pendingTransactions = last.pool0
        /\ peers = last.peers0
        /\ hashRate = last.hashRate0
        /\ last.from \in peers
        /\ alive

C29_BroadcastToOthersOnce ==
    /\ last.op = "updateHashRate" =>
           SentToAllBut(last.sent, peers, NoPeer, last.message)
    /\ (/\ last.op = "handleMessage"
        /\ \/ last.message.type = "TRANSACTION"
           \/ last.message.type = "BLOCK" /\ chain # last.chain0) =>
           SentToAllBut(last.sent, peers, last.from,
                        [type |-> last.message.type, data |-> last.message.data])

C29_Witness ==
    /\ last.op = "handleMessage"
    /\ last.message.type = "BLOCK"
    /\ chain # last.chain0
    /\ Cardinality(last.peers0) = MaxPeers
    /\ Len(last.sent) = MaxPeers - 1
    /\ \A i \in 1..Len(last.sent) : last.sent[i].to # last.from

\* The handler that ran last left the peer it was called for out of the
\* peer set and out of the list, and every other peer where it was; for a
\* peer already removed that is no change. Whatever ran last sent only to
\* peers of the peer set.
DisconnectedIsGone ==
    /\ last.op = "handleDisconnection" =>
           /\ last.from \notin peers
           /\ \A i \in 1..Len(connectedPeers) : connectedPeers[i] # last.from
           /\ peers = last.peers0 \ {last.from}
           /\ last.from \notin last.peers0 =>
                  (peers = last.peers0 /\ connectedPeers = last.connected0)
    /\ last.op \in {"handleConnection", "handleMessage", "updateHashRate"} =>
           \A i \in 1..Len(last.sent) : last.sent[i].to \in peers

\* A peer that was removed is not taken back, and the handler opens no
\* connection: no peer id is given out in its step.
NoReconnection ==
    /\ \A p \in 1..(nextPeer - 1) : p \notin peers => p \notin peers'
    /\ last'.op = "handleDisconnection" => nextPeer' = nextPeer

\* C30: after the close or error event of peer p's socket p is not in the
\* peer set, and nothing sent or broadcast afterwards goes to p; a second
\* event for p changes nothing; and the node does not connect to p again.
C30_DisconnectedStaysOut == [][DisconnectedIsGone' /\ NoReconnection]_vars

C30_Witness ==
    /\ last.op = "handleDisconnection"
    /\ last.from \in last.peers0
    /\ last.from \notin peers
    /\ peers # {}
    /\ alive

\* No two entries of the peer map are connections with the same node.
OneEntryPerNode ==
    \A p \in peers, q \in peers : p # q => peerInfo[p].node # peerInfo[q].node

\* C31: on PEER_DISCOVERY{nodeId, address, port} the node starts a
\* connection to address:port exactly when no peer entry has that address
\* and port and the port is not its own; it never calls its own port, and
\* it never holds two peer entries for one remote node.
C31_DiscoveryConnectsOnce ==
    /\ (/\ last.op = "handleMessage"
        /\ last.message.type = "PEER_DISCOVERY"
        /\ last.message.hasData) =>
           (last.dial # <<>> <=>
               /\ \A id \in DOMAIN last.info0 :
                      ~(/\ last.info0[id].address = last.message.data.address
                        /\ last.info0[id].port = last.message.data.port)
               /\ last.message.data.port # OwnPort)
    /\ \A i \in 1..Len(dialing) : dialing[i].port # OwnPort
    /\ \A id \in peers : peerInfo[id].node # "self"
    /\ OneEntryPerNode

\* Every CHAIN_RESPONSE among the messages sent tells the length of the
\* chain it carries and the hash of that chain's last block.
ResponsesSound(sent) ==
    \A i \in 1..Len(sent) :
        sent[i].message.type = "CHAIN_RESPONSE" =>
            LET data == sent[i].message.data
            IN /\ data.chain # <<>>
               /\ data.height = Len(data.chain)
               /\ data.hash = data.chain[Len(data.chain)].hash

\* C32: on CHAIN_REQUEST from peer p the node sends one CHAIN_RESPONSE, to p
\* only, carrying its chain, and changes nothing; every CHAIN_RESPONSE it
\* sends, on request or on connection, tells the length of the chain it
\* carries and the hash of that chain's last block.
C32_ChainRequestAnswered ==
    /\ (last.op = "handleMessage" /\ last.message.type = "CHAIN_REQUEST") =>
           /\ Len(last.sent) = 1
           /\ last.sent[1].to = last.from
           /\ last.sent[1].message.type = "CHAIN_RESPONSE"
           /\ last.sent[1].message.data.chain = chain
           /\ chain = last.chain0
           /\ pendingTransactions = last.pool0
           /\ peers = last.peers0
           /\ connectedPeers = last.connected0
           /\ hashRate = last.hashRate0
           /\ alive
    /\ last.op \in {"handleMessage", "handleConnection", "updateHashRate"} =>
           ResponsesSound(last.sent)

C32_Witness ==
    /\ last.op = "handleMessage"
    /\ last.message.type = "CHAIN_REQUEST"
    /\ Cardinality(peers) = MaxPeers
    /\ Len(chain) > 1
    /\ Len(last.sent) = 1
    /\ last.sent[1].message.data.height = Len(chain)

\* C33: on a ledger grown from an empty data directory by addTransaction
\* and minePendingTransactions alone, no address has a negative balance.
C33_NoNegativeBalance ==
    isInitialized => \A a \in Readers : getBalance(chain, a) >= 0

\* No message is in flight on any link.
Quiet == \A l \in Links : wire[l] = <<>>

\* The chain of node n as JSON tells it
ChainOf(n) == PlainChain(IF n = "A" THEN chain ELSE peerChain[n])

\* C34: for connected nodes that started from the same chain and changed
\* it only by mining and by the gossip handlers, whenever no message is in
\* flight and two chains have the same length, the two chains are the same.
C34_NoLastingFork ==
    Quiet =>
        \A n \in NetNodes, m \in NetNodes :
            Len(ChainOf(n)) = Len(ChainOf(m)) => ChainOf(n) = ChainOf(m)

\* No node has rebroadcast two blocks of one index in its run.
RelayedOnce ==
    \A n \in NetNodes :
        \A i \in 1..Len(relayed[n]), j \in 1..Len(relayed[n]) :
            i # j => relayed[n][i] # relayed[n][j]

\* C35: a node rebroadcasts a BLOCK for a given block index at most once
\* over its run, and in a graph of peers with cycles the gossip ends:
\* whenever a message is in flight, a state follows where none is.
C35_BlockGossipEnds ==
    /\ []RelayedOnce
    /\ (~Quiet) ~> Quiet

C35_Witness ==
    /\ Quiet
    /\ Len(relayed["C"]) > 1
    /\ relayed["A"] # <<>>
    /\ relayed["B"] # <<>>

\* The call of minePendingTransactions in this step failed.
MineFailed(record) == record.op = "minePendingTransactions" /\ ~record.ok

\* C36: when minePendingTransactions(rewardAddress) fails (the address
\* fails validation, or the nonce search runs out) the chain and the pool
\* are as before the call and nothing is written to the store.
C36_FailedMineChangesNothing ==
    [][MineFailed(last') =>
          /\ chain' = chain
          /\ pendingTransactions' = pendingTransactions
          /\ blocksFile' = blocksFile
          /\ pendingFile' = pendingFile
          /\ backups' = backups
          /\ nextId' = nextId]_vars

C36_Witness ==
    /\ MineFailed(last)
    /\ last.error = "Invalid recipient address"
    /\ Len(chain) > 1
    /\ pendingTransactions # <<>>
    /\ blocksFile # <<>>

\* C37: the peers map and the connectedPeers list hold the same peer ids,
\* and the list holds no id twice, whatever the order of connection, close
\* and error events.
C37_PeerMapAndListAgree ==
    /\ peers = {connectedPeers[i] : i \in 1..Len(connectedPeers)}
    /\ Len(connectedPeers) = Cardinality(peers)
    /\ DOMAIN peerInfo = peers

C37_Witness ==
    /\ last.op = "handleDisconnection"
    /\ last.from \notin last.peers0
    /\ peers # {}
    /\ Len(connectedPeers) = Cardinality(peers)

\* C38: from the end of initialize() on, with no store write failed, the
\* chain held in blocks.json is the chain in memory.
C38_StoreHoldsChain ==
    isInitialized => blocksFile = PlainChain(chain)

\* What loadBlockchain returned to the initialize() that ran last
Loaded ==
    loadBlockchain(last.store.blocks, last.store.backup, last.blocksFile0,
                   last.backups0)

\* C39: a non-empty chain that loadBlockchain returns matches the digest
\* stored with it, whether it comes from blocks.json or from a backup; and
\* what saveBlockchain(c) wrote, loadBlockchain returns.
C39_LoadedChainMatchesDigest ==
    /\ (last.op = "initialize" /\ last.store.initialize /\ Loaded # <<>>) =>
           \/ last.store.blocks = "ok" /\ Loaded = last.blocksFile0
           \/ /\ last.store.blocks # "ok"
              /\ last.store.backup = "ok"
              /\ Loaded = last.backups0[1]
    /\ (last.op = "minePendingTransactions" /\ last.ok) =>
           loadBlockchain("ok", "ok", blocksFile, backups) = PlainChain(chain)

====
